---- MODULE Spec2Model ----
(***************************************************************************)
(* A model of the Pixiv search plugin: the tag-expression parser, the      *)
(* content classifier and filter engine (utils/tag.py), and the two        *)
(* paginated commands pixiv_deepsearch and pixiv_and (main.py).            *)
(*                                                                         *)
(* Strings are sequences of one-character strings, so that lower(),        *)
(* strip(), split() and substring containment are computed, not assumed.   *)
(***************************************************************************)
EXTENDS Integers, Sequences, FiniteSets, TLC

VARIABLES
    cmd,               \* which entry point this behaviour runs
    pc,                \* position inside the running handler
    tags,              \* the raw tag string handed to the command
    tag_result,        \* the dict returned by validate_and_process_tags
    pixiv_config,      \* self.pixiv_config: the plugin's shared configuration
    authed,            \* number of calls made to self.client.auth
    deep_search_depth, \* the handler's local copy of the configured depth
    page_count,        \* the handler's page counter
    next_params,       \* the cursor: "initial", "cursor" or "none"
    all_illusts,       \* works accumulated by the fetch loop
    requests,          \* number of search_illust calls issued
    resp_log,          \* what each search_illust call came back with
    illusts,           \* initial_illusts handed to process_and_send_illusts
    config,            \* the FilterConfig of this invocation
    filtered_illusts,  \* the list returned by filter_illusts_with_reason
    filter_msgs,       \* the messages returned by filter_illusts_with_reason
    illusts_to_send,   \* the selection made by sample_illusts
    send_idx,          \* next selected work of the individual-send loop
    out,               \* the events yielded to the caller, in order
    call,              \* arguments and return value of a function applied on its own
    dl_log,            \* the download attempts made for the selected works, in order
    image_host,        \* how the image host behaves: "up" or "flaky"
    config_at_start,   \* history: self.pixiv_config as it was when the command started
    fetch_log,         \* history: the requests, progress messages and sleeps of the fetch loop
    catalogue,         \* what the search collaborator holds: "finite" or "endless"
    store,             \* the rows of the Subscription table
    artist_illusts,    \* the id of the newest work the subscribed artist has published
    poll,              \* the locals of the running check_subscriptions job
    sub_cmd,           \* the locals of the running pixiv_subscribe_add handler
    sub_out            \* replies of the subscription commands and messages sent by the job

vars == <<cmd, pc, tags, tag_result, pixiv_config, authed, deep_search_depth,
          page_count, next_params, all_illusts, requests, resp_log,
          illusts, config, filtered_illusts, filter_msgs, illusts_to_send,
          send_idx, out, call, dl_log, image_host,
          config_at_start, fetch_log, catalogue,
          store, artist_illusts, poll, sub_cmd, sub_out>>

subVars == <<store, artist_illusts, poll, sub_cmd, sub_out>>

tagVars == <<tags, tag_result>>
searchVars == <<pixiv_config, authed, deep_search_depth, page_count, next_params,
                all_illusts, requests, resp_log>>
sendVars == <<illusts, config, filtered_illusts, filter_msgs, illusts_to_send,
              send_idx, out>>
auxVars == <<call, dl_log, image_host, config_at_start, fetch_log, catalogue, subVars>>

(***************************************************************************)
(* Bounds of the model.                                                    *)
(***************************************************************************)
MaxStrLen == 5      \* longest raw tag string enumerated for the parser
MaxWorks == 3       \* longest work list handed directly to the filter
MaxDepth == 3       \* largest configured deep_search_depth

\* The search collaborator holds finitely many pages: one more than any finite depth.
MaxRequests == MaxDepth + 1

\* The calls of search_illust followed against a catalogue that never ends.
MaxLongFetch == 7

(***************************************************************************)
(* Strings.                                                                *)
(***************************************************************************)
FullwidthComma == "fw,"   \* the character U+FF0C
IdeographicComma == "id," \* the character U+3001, the separator of the conflict list

Range(s) == {s[i] : i \in 1..Len(s)}

RECURSIVE SeqsUpTo(_, _)
SeqsUpTo(S, n) ==
    IF n = 0 THEN {<<>>}
    ELSE LET shorter == SeqsUpTo(S, n - 1)
         IN shorter \cup {Append(s, x) : s \in {t \in shorter : Len(t) = n - 1}, x \in S}

\* str.lower() on the letters the model uses
LowerChar(c) ==
    CASE c = "A" -> "a" [] c = "B" -> "b" [] c = "C" -> "c" [] c = "D" -> "d"
      [] c = "G" -> "g" [] c = "I" -> "i" [] c = "O" -> "o" [] c = "R" -> "r"
      [] c = "T" -> "t" [] c = "F" -> "f" [] c = "E" -> "e" [] c = "L" -> "l"
      [] c = "N" -> "n" [] c = "S" -> "s" [] c = "U" -> "u" [] c = "Y" -> "y"
      [] OTHER -> c

Lower(s) == [i \in 1..Len(s) |-> LowerChar(s[i])]

IsSpace(c) == c = " "

RECURSIVE LStrip(_)
LStrip(s) == IF s # <<>> /\ IsSpace(Head(s)) THEN LStrip(Tail(s)) ELSE s

RECURSIVE RStrip(_)
RStrip(s) ==
    IF s # <<>> /\ IsSpace(s[Len(s)]) THEN RStrip(SubSeq(s, 1, Len(s) - 1)) ELSE s

\* str.strip()
Strip(s) == RStrip(LStrip(s))

\* str.replace(old, new) for single characters
ReplaceChar(s, old, new) == [i \in 1..Len(s) |-> IF s[i] = old THEN new ELSE s[i]]

\* str.split(sep) for a single-character separator: always at least one piece
RECURSIVE Split(_, _)
Split(s, sep) ==
    IF \A i \in 1..Len(s) : s[i] # sep THEN <<s>>
    ELSE LET k == CHOOSE i \in 1..Len(s) : s[i] = sep /\ \A j \in 1..(i - 1) : s[j] # sep
         IN <<SubSeq(s, 1, k - 1)>> \o Split(SubSeq(s, k + 1, Len(s)), sep)

\* sep.join(parts)
RECURSIVE Join(_, _)
Join(parts, sep) ==
    IF parts = <<>> THEN <<>>
    ELSE IF Len(parts) = 1 THEN parts[1]
    ELSE parts[1] \o sep \o Join(Tail(parts), sep)

\* needle in hay
IsSubstr(needle, hay) ==
    \E i \in 0..(Len(hay) - Len(needle)) : SubSeq(hay, i + 1, i + Len(needle)) = needle

StartsWith(s, prefix) == Len(prefix) <= Len(s) /\ SubSeq(s, 1, Len(prefix)) = prefix

EndsWith(s, suffix) ==
    Len(suffix) <= Len(s) /\ SubSeq(s, Len(s) - Len(suffix) + 1, Len(s)) = suffix

(***************************************************************************)
(* utils/tag.py: the tag-expression parser.                                *)
(***************************************************************************)
\* tag[1:].lower() without the lowercasing: the exclude tag keeps its case
ExcludeTermKeepCase(tag) == Tail(tag)

ExcludeTerm(tag) == Lower(Tail(tag))

parse_tags_with_exclusion(tags_str) ==
    IF tags_str = <<>> THEN [include |-> <<>>, exclude |-> <<>>, conflict |-> <<>>]
    ELSE
      LET pieces == Split(ReplaceChar(tags_str, FullwidthComma, ","), ",")
          stripped == [i \in 1..Len(pieces) |-> Strip(pieces[i])]
          all_tags == SelectSeq(stripped, LAMBDA t : t # <<>>)
          isExclude(t) == StartsWith(t, <<"-">>)
          excl == SelectSeq(all_tags, isExclude)
          exclude_tags == [i \in 1..Len(excl) |-> ExcludeTerm(excl[i])]
          include_tags == SelectSeq(all_tags, LAMBDA t : ~isExclude(t))
          include_tags_lower == [i \in 1..Len(include_tags) |-> Lower(include_tags[i])]
          conflict_tags == SelectSeq(exclude_tags, LAMBDA e : e \in Range(include_tags_lower))
      IN [include |-> include_tags, exclude |-> exclude_tags, conflict |-> conflict_tags]

\* validate_and_process_tags without the "if not include_tags" test
ValidateWithoutIncludeTest(cleaned_tags) ==
    LET p == parse_tags_with_exclusion(cleaned_tags)
    IN IF p.conflict # <<>> THEN
         [success |-> FALSE,
          error_message |-> [kind |-> "conflict",
                             text |-> Join(p.conflict, <<IdeographicComma>>)],
          include_tags |-> <<>>, exclude_tags |-> <<>>,
          search_tags |-> <<>>, display_tags |-> cleaned_tags]
       ELSE
         [success |-> TRUE,
          error_message |-> [kind |-> "none", text |-> <<>>],
          include_tags |-> p.include, exclude_tags |-> p.exclude,
          search_tags |-> Join(p.include, <<",">>), display_tags |-> cleaned_tags]

validate_and_process_tags(cleaned_tags) ==
    LET p == parse_tags_with_exclusion(cleaned_tags)
    IN IF p.conflict # <<>> THEN
         [success |-> FALSE,
          error_message |-> [kind |-> "conflict",
                             text |-> Join(p.conflict, <<IdeographicComma>>)],
          include_tags |-> <<>>, exclude_tags |-> <<>>,
          search_tags |-> <<>>, display_tags |-> cleaned_tags]
       ELSE IF p.include = <<>> THEN
         [success |-> FALSE,
          error_message |-> [kind |-> "need_include", text |-> <<>>],
          include_tags |-> <<>>, exclude_tags |-> <<>>,
          search_tags |-> <<>>, display_tags |-> cleaned_tags]
       ELSE
         [success |-> TRUE,
          error_message |-> [kind |-> "none", text |-> <<>>],
          include_tags |-> p.include, exclude_tags |-> p.exclude,
          search_tags |-> Join(p.include, <<",">>), display_tags |-> cleaned_tags]

(***************************************************************************)
(* Works.  A work is [id, tags]; tags is the ordered list of tag entries.  *)
(* An entry is a value tagged with its type: a mapping with a "name", or   *)
(* a bare value; a value is a str, None, or some other object.             *)
(***************************************************************************)
T_cat == <<"c", "a", "t">>
T_Cat == <<"C", "a", "t">>
T_cats == <<"c", "a", "t", "s">>
T_dog == <<"d", "o", "g">>
T_DOG == <<"D", "O", "G">>
T_R18 == <<"R", "-", "1", "8">>
T_AI == <<"A", "I">>

\* a str value
Str(chars) == [type |-> "str", chars |-> chars]

\* the value None; also what tag.get("name") gives when the key is absent
PyNone == [type |-> "NoneType", chars |-> <<>>]

\* a value that is not a str although it carries text
Bytes(chars) == [type |-> "bytes", chars |-> chars]

\* a tag entry that is a mapping whose "name" is the value v
DictTag(v) == [type |-> "dict", name |-> v]

\* a work as the API delivers it: every entry a mapping with a str name
Work(i, ts) == [id |-> i, tags |-> [k \in 1..Len(ts) |-> DictTag(Str(ts[k]))]]

\* The works the search collaborator can deliver.
WorkPool ==
    { Work(1, <<T_cat, T_dog>>),
      Work(2, <<T_Cat, T_DOG, T_R18>>),
      Work(3, <<T_cat, T_AI>>),
      Work(4, <<T_cats, T_dog>>) }

(***************************************************************************)
(* utils/tag.py: the content classifier.                                   *)
(***************************************************************************)
\* [s.lower() for s in ["R-18", "R18", "R-18G", "R18G", "R18+", "R18+G"]]
R18_BADWORDS ==
    { Lower(<<"R", "-", "1", "8">>), Lower(<<"R", "1", "8">>),
      Lower(<<"R", "-", "1", "8", "G">>), Lower(<<"R", "1", "8", "G">>),
      Lower(<<"R", "1", "8", "+">>), Lower(<<"R", "1", "8", "+", "G">>) }

\* [s.lower() for s in ["AI", "AI生成", "AI-generated", "AI辅助"]]
AI_BADWORDS ==
    { Lower(<<"A", "I">>), Lower(<<"A", "I", "U+751F", "U+6210">>),
      Lower(<<"A", "I", "-", "g", "e", "n", "e", "r", "a", "t", "e", "d">>),
      Lower(<<"A", "I", "U+8F85", "U+52A9">>) }

\* the badword test looking for the badword anywhere in the name
MatchesBadwordAnywhere(name, badwords) ==
    LET lname == Strip(Lower(name))
    IN \E bad \in badwords : IsSubstr(bad, lname)

\* the test both classifiers apply to one tag name
MatchesBadword(name, badwords) ==
    LET lname == Strip(Lower(name))
    IN \/ lname \in badwords
       \/ \E bad \in badwords :
            \/ IsSubstr(<<" ">> \o bad \o <<" ">>, <<" ">> \o lname \o <<" ">>)
            \/ StartsWith(lname, bad \o <<" ">>)
            \/ EndsWith(lname, <<" ">> \o bad)

\* name = tag.get("name") if isinstance(tag, dict) else tag
tag_name(tag) == IF tag.type = "dict" THEN tag.name ELSE tag

\* isinstance without its type test
IsInstanceOfAnything(name) == TRUE

\* isinstance(name, str)
isinstance_str(name) == name.type = "str"

is_r18(item) ==
    \E i \in 1..Len(item.tags) :
        LET name == tag_name(item.tags[i])
        IN isinstance_str(name) /\ MatchesBadword(name.chars, R18_BADWORDS)

is_ai(item) ==
    \E i \in 1..Len(item.tags) :
        LET name == tag_name(item.tags[i])
        IN isinstance_str(name) /\ MatchesBadword(name.chars, AI_BADWORDS)

has_excluded_tags(item, excluded_tags) ==
    IF excluded_tags = <<>> THEN FALSE
    ELSE \E i \in 1..Len(item.tags) :
           LET name == tag_name(item.tags[i])
           IN /\ isinstance_str(name)
              /\ \E k \in 1..Len(excluded_tags) :
                    IsSubstr(excluded_tags[k], Lower(name.chars))

\* a str method (lower, strip) is reached on a name that is not a str
classifier_raises(item) ==
    \E i \in 1..Len(item.tags) :
        LET name == tag_name(item.tags[i])
        IN isinstance_str(name) /\ name.type # "str"

(***************************************************************************)
(* utils/tag.py: the filter engine.                                        *)
(***************************************************************************)
R18_FILTER == "filter R18"    \* r18_mode "过滤 R18"
R18_ALLOW == "allow R18"      \* r18_mode "允许 R18"
R18_ONLY == "only R18"        \* r18_mode "仅 R18"
AI_SHOW == "show AI"          \* ai_filter_mode "显示 AI 作品"
AI_FILTER == "filter AI"      \* ai_filter_mode "过滤 AI 作品"
AI_ONLY == "only AI"          \* ai_filter_mode "仅 AI 作品"

R18Modes == {R18_FILTER, R18_ALLOW, R18_ONLY}
AIModes == {AI_SHOW, AI_FILTER, AI_ONLY}

\* Optional[...] fields: None, or a present value
None == [some |-> FALSE, value |-> <<>>]

Some(v) == [some |-> TRUE, value |-> v]

\* _apply_filters without the "仅 R18" test
ApplyFiltersNoOnlyR18(item, cfg) ==
    IF cfg.r18_mode = R18_FILTER /\ is_r18(item) THEN FALSE
    ELSE IF cfg.ai_filter_mode = AI_FILTER /\ is_ai(item) THEN FALSE
    ELSE IF cfg.ai_filter_mode = AI_ONLY /\ ~is_ai(item) THEN FALSE
    ELSE IF cfg.excluded_tags # <<>> /\ has_excluded_tags(item, cfg.excluded_tags) THEN FALSE
    ELSE TRUE

\* _apply_filters without the "过滤 AI 作品" test
ApplyFiltersNoAIFilter(item, cfg) ==
    IF cfg.r18_mode = R18_FILTER /\ is_r18(item) THEN FALSE
    ELSE IF cfg.r18_mode = R18_ONLY /\ ~is_r18(item) THEN FALSE
    ELSE IF cfg.ai_filter_mode = AI_ONLY /\ ~is_ai(item) THEN FALSE
    ELSE IF cfg.excluded_tags # <<>> /\ has_excluded_tags(item, cfg.excluded_tags) THEN FALSE
    ELSE TRUE

_apply_filters(item, cfg) ==
    IF cfg.r18_mode = R18_FILTER /\ is_r18(item) THEN FALSE
    ELSE IF cfg.r18_mode = R18_ONLY /\ ~is_r18(item) THEN FALSE
    ELSE IF cfg.ai_filter_mode = AI_FILTER /\ is_ai(item) THEN FALSE
    ELSE IF cfg.ai_filter_mode = AI_ONLY /\ ~is_ai(item) THEN FALSE
    ELSE IF cfg.excluded_tags # <<>> /\ has_excluded_tags(item, cfg.excluded_tags) THEN FALSE
    ELSE TRUE

_generate_no_result_messages(initial_count, cfg, ills) ==
    LET no_result_reason ==
            (IF cfg.r18_mode = R18_FILTER /\ \E i \in 1..Len(ills) : is_r18(ills[i])
                THEN <<"R18">> ELSE <<>>)
         \o (IF cfg.ai_filter_mode = AI_FILTER /\ \E i \in 1..Len(ills) : is_ai(ills[i])
                THEN <<"AI">> ELSE <<>>)
         \o (IF cfg.r18_mode = R18_ONLY /\ ~\E i \in 1..Len(ills) : is_r18(ills[i])
                THEN <<"non-R18">> ELSE <<>>)
         \o (IF cfg.ai_filter_mode = AI_ONLY /\ ~\E i \in 1..Len(ills) : is_ai(ills[i])
                THEN <<"non-AI">> ELSE <<>>)
         \o (IF cfg.excluded_tags # <<>>
                /\ \E i \in 1..Len(ills) : has_excluded_tags(ills[i], cfg.excluded_tags)
                THEN <<"excluded tag">> ELSE <<>>)
    IN IF no_result_reason # <<>> /\ initial_count > 0 THEN
         \* "所有找到的作品均为 ...，根据当前设置已被过滤。"
         <<[kind |-> "all_filtered", reasons |-> no_result_reason]>>
       ELSE IF initial_count = 0 /\ cfg.all_illusts_from_first_tag.some
               /\ Len(cfg.all_illusts_from_first_tag.value) > 0 THEN
         \* "找到了与「first_tag」相关的作品，但没有作品同时包含所有标签"
         <<[kind |-> "no_work_with_all_tags", first_tag |-> cfg.first_tag]>>
       ELSE IF initial_count = 0 /\ cfg.all_illusts_from_first_tag.some
               /\ Len(cfg.all_illusts_from_first_tag.value) = 0 THEN
         \* "未找到任何与标签「first_tag」相关的作品。"
         <<[kind |-> "no_work_for_first_tag", first_tag |-> cfg.first_tag]>>
       ELSE
         \* "筛选后没有符合条件的作品可发送。"
         <<[kind |-> "nothing_to_send"]>>

_generate_filter_messages(initial_count, filtered_count, cfg, ills) ==
    IF ~cfg.show_filter_result THEN <<>>
    ELSE
      LET filter_reasons ==
              (IF cfg.r18_mode \in {R18_FILTER, R18_ONLY} THEN <<"R18">> ELSE <<>>)
           \o (IF cfg.ai_filter_mode \in {AI_FILTER, AI_ONLY} THEN <<"AI">> ELSE <<>>)
           \o (IF cfg.excluded_tags # <<>> THEN <<"excluded tag">> ELSE <<>>)
          first ==
              IF filtered_count < initial_count THEN
                IF filter_reasons # <<>> THEN
                  \* "部分作品因 ... 设置被过滤 (找到 n 个..., 最终剩 m 个可发送)。"
                  <<[kind |-> "some_filtered", reasons |-> filter_reasons,
                     initial_count |-> initial_count, filtered_count |-> filtered_count]>>
                ELSE <<>>
              ELSE IF initial_count > 0 THEN
                \* "筛选完成，共找到 n 个...正在发送最多 k 张..."
                <<[kind |-> "filter_complete", initial_count |-> initial_count,
                   return_count |-> cfg.return_count]>>
              ELSE <<>>
      IN first \o (IF filtered_count = 0
                     THEN _generate_no_result_messages(initial_count, cfg, ills)
                     ELSE <<>>)

filter_illusts_with_reason(ills, cfg) ==
    LET initial_count == Len(ills)
        filtered_list == SelectSeq(ills, LAMBDA item : _apply_filters(item, cfg))
        filtered_count == Len(filtered_list)
    IN [filtered |-> filtered_list,
        msgs |-> _generate_filter_messages(initial_count, filtered_count, cfg, ills)]

FilterConfig(r18, ai, first_tag, from_first_tag, return_count, show, excluded, threshold) ==
    [r18_mode |-> r18, ai_filter_mode |-> ai, first_tag |-> first_tag,
     all_illusts_from_first_tag |-> from_first_tag, return_count |-> return_count,
     show_filter_result |-> show, excluded_tags |-> excluded,
     forward_threshold |-> threshold]

(***************************************************************************)
(* utils/tag.py: the sampler and process_and_send_illusts.                 *)
(***************************************************************************)
Min(a, b) == IF a <= b THEN a ELSE b

\* s without its i-th element
RemoveAt(s, i) == SubSeq(s, 1, i - 1) \o SubSeq(s, i + 1, Len(s))

\* the first k elements random.shuffle can leave at the head of the list
RECURSIVE ShuffledPrefixes(_, _)
ShuffledPrefixes(s, k) ==
    IF k = 0 THEN {<<>>}
    ELSE UNION {{<<s[i]>> \o rest : rest \in ShuffledPrefixes(RemoveAt(s, i), k - 1)} :
                i \in 1..Len(s)}

\* the position sequences random.sample(illusts, k) can draw from n positions
RandomSample(n, k) ==
    {p \in [1..k -> 1..n] : \A i, j \in 1..k : i # j => p[i] # p[j]}

\* the works of ills at the positions p, in the order of p
WorksAt(ills, p) == [j \in 1..Len(p) |-> ills[p[j]]]

\* sample_illusts with illusts[:count_to_send] taken whatever the sign of
\* count_to_send: a negative bound of a slice counts from the end
SampleWithoutPositiveTest(ills, count, shuffle) ==
    IF ills = <<>> THEN {[positions |-> <<>>, selected |-> <<>>]}
    ELSE LET count_to_send == Min(Len(ills), count)
             k == IF count_to_send >= 0 THEN count_to_send
                  ELSE IF Len(ills) + count_to_send > 0 THEN Len(ills) + count_to_send
                  ELSE 0
         IN {[positions |-> p, selected |-> WorksAt(ills, p)] :
                p \in ShuffledPrefixes([i \in 1..Len(ills) |-> i], k)}

\* sample_illusts(illusts, count, shuffle): the selections it can return, each
\* with the positions of the input list it was taken from.
sample_illusts(ills, count, shuffle) ==
    IF ills = <<>> THEN {[positions |-> <<>>, selected |-> <<>>]}
    ELSE LET count_to_send == Min(Len(ills), count)
         IN IF count_to_send > 0
              THEN LET picks == IF shuffle
                                  THEN ShuffledPrefixes([i \in 1..Len(ills) |-> i],
                                                        count_to_send)
                                  ELSE RandomSample(Len(ills), count_to_send)
                   IN {[positions |-> p, selected |-> WorksAt(ills, p)] : p \in picks}
              ELSE {[positions |-> <<>>, selected |-> <<>>]}

\* sample_illusts(illusts, count, shuffle=True) as process_and_send_illusts calls it.
\* The shuffle reorders the caller's list in place; that list is a local of
\* process_and_send_illusts which nothing reads afterwards.
sample_illusts_shuffle(ills, count) ==
    {[selected |-> r.selected] : r \in sample_illusts(ills, count, TRUE)}

Plain(m) == [type |-> "plain", msg |-> m, works |-> <<>>]
SendSingle(w) == [type |-> "single", msg |-> [kind |-> "image"], works |-> <<w>>]
\* "图片下载失败，仅发送信息" for the selected work w
DownloadFailed(w) ==
    [type |-> "plain", msg |-> [kind |-> "image_download_failed", work |-> w.id],
     works |-> <<>>]
\* one forward container: a node per work of ws, contents[k] what node k holds
SendForward(ws, contents) ==
    [type |-> "forward", msg |-> [kind |-> "nodes", contents |-> contents], works |-> ws]

\* lines 287-304: filter, yield the filter messages, and the empty-result notices
PS_Filter ==
    /\ pc = "ps_filter"
    /\ LET r == filter_illusts_with_reason(illusts, config)
           shown == IF config.show_filter_result
                      THEN [i \in 1..Len(r.msgs) |-> Plain(r.msgs[i])] ELSE <<>>
           empty_notice ==
               IF r.filtered # <<>> THEN <<>>
               ELSE IF config.show_filter_result THEN
                      IF r.msgs = <<>> THEN <<Plain([kind |-> "nothing_to_send"])>> ELSE <<>>
               \* "没有找到符合条件的作品。"
               ELSE <<Plain([kind |-> "no_work_found"])>>
       IN /\ filtered_illusts' = r.filtered
          /\ filter_msgs' = r.msgs
          /\ out' = out \o shown \o empty_notice
          /\ pc' = IF r.filtered = <<>> THEN "done" ELSE "ps_sample"
    /\ UNCHANGED <<cmd, auxVars, tagVars, searchVars, illusts, config, illusts_to_send, send_idx>>

\* lines 306-310: the selection
PS_Sample ==
    /\ pc = "ps_sample"
    /\ \E s \in sample_illusts_shuffle(filtered_illusts, config.return_count) :
         /\ illusts_to_send' = s.selected
         /\ pc' = IF s.selected = <<>> THEN "done" ELSE "ps_route"
    /\ send_idx' = 1
    /\ UNCHANGED <<cmd, auxVars, tagVars, searchVars, illusts, config, filtered_illusts,
                   filter_msgs, out>>

\* the size test of line 313 with >= for >
UseForwardAtThreshold == Len(illusts_to_send) >= config.forward_threshold

\* the size test of line 313
UseForward == Len(illusts_to_send) > config.forward_threshold

\* lines 312-313 and 321: route by the size of the selection
PS_Route ==
    /\ pc = "ps_route"
    /\ pc' = IF UseForward THEN "ps_forward" ELSE "ps_send"
    /\ UNCHANGED <<cmd, auxVars, tagVars, searchVars, sendVars>>

(***************************************************************************)
(* utils/pixiv_utils.py: send_pixiv_image and send_forward_message.        *)
(***************************************************************************)
batch_size == 10

quality_preference == <<"original", "large", "medium">>

\* quality_preference[start_index:]
qualities_to_try(image_quality) ==
    IF image_quality \in Range(quality_preference)
      THEN LET start_index == CHOOSE i \in 1..Len(quality_preference) :
                                  quality_preference[i] = image_quality
           IN SubSeq(quality_preference, start_index, Len(quality_preference))
      ELSE quality_preference

\* what can happen for one quality of one work: the work has no URL of that
\* quality, download_image gets a status other than 200, the request raises,
\* or the image data arrives
DownloadOutcomes ==
    IF image_host = "up" THEN {"ok"} ELSE {"no_url", "status_error", "exception", "ok"}

\* the quality loop of send_pixiv_image without the break after a sent image
RECURSIVE DownloadLoopNoBreak(_, _, _)
DownloadLoopNoBreak(qs, outcome, i) ==
    IF i > Len(qs) THEN [attempts |-> <<>>, images |-> 0]
    ELSE LET rest == DownloadLoopNoBreak(qs, outcome, i + 1)
         IN IF outcome[i] = "no_url" THEN rest
            ELSE [attempts |-> <<[quality |-> qs[i], outcome |-> outcome[i]]>>
                                  \o rest.attempts,
                  images |-> rest.images + (IF outcome[i] = "ok" THEN 1 ELSE 0)]

\* lines 263-292: the quality loop of send_pixiv_image from its i-th quality
\* on; the attempts it makes and the number of images it yields
RECURSIVE download_loop(_, _, _)
download_loop(qs, outcome, i) ==
    IF i > Len(qs) THEN [attempts |-> <<>>, images |-> 0]
    ELSE IF outcome[i] = "no_url" THEN download_loop(qs, outcome, i + 1)
    ELSE IF outcome[i] = "ok"
      THEN [attempts |-> <<[quality |-> qs[i], outcome |-> "ok"]>>, images |-> 1]
    ELSE LET rest == download_loop(qs, outcome, i + 1)
         IN [attempts |-> <<[quality |-> qs[i], outcome |-> outcome[i]]>> \o rest.attempts,
             images |-> rest.images]

\* the events send_pixiv_image yields for the work w
send_pixiv_image(w, r) ==
    [k \in 1..r.images |-> SendSingle(w)]
        \o (IF r.images = 0 THEN <<DownloadFailed(w)>> ELSE <<>>)

\* lines 321-327: one turn of the individual-send loop, a whole send_pixiv_image
PS_SendOne ==
    /\ pc = "ps_send"
    /\ send_idx <= Len(illusts_to_send)
    /\ LET qs == qualities_to_try(pixiv_config.image_quality)
       IN \E outcome \in [1..Len(qs) -> DownloadOutcomes] :
            LET r == download_loop(qs, outcome, 1)
            IN /\ out' = out \o send_pixiv_image(illusts_to_send[send_idx], r)
               /\ dl_log' = dl_log \o [k \in 1..Len(r.attempts) |->
                                          [idx |-> send_idx,
                                           quality |-> r.attempts[k].quality,
                                           outcome |-> r.attempts[k].outcome]]
    /\ send_idx' = send_idx + 1
    /\ pc' = IF send_idx = Len(illusts_to_send) THEN "done" ELSE "ps_send"
    /\ UNCHANGED <<cmd, call, image_host, config_at_start, fetch_log, catalogue, subVars, tagVars, searchVars, illusts, config,
                   filtered_illusts, filter_msgs, illusts_to_send>>

\* lines 501-531: what one node of a forward container can hold; the single
\* download is made at the first quality the work has a URL for
NodeOutcomes(qs) ==
    IF image_host = "up"
      THEN {[content |-> "image", quality |-> qs[1], outcome |-> "ok"]}
      ELSE {[content |-> "no_link", quality |-> "none", outcome |-> "none"]}
             \cup {[content |-> IF o = "ok" THEN "image" ELSE "download_failed",
                    quality |-> q, outcome |-> o] :
                      q \in Range(qs), o \in {"ok", "status_error", "exception"}}

\* lines 482-539 of send_forward_message: one batch, one container
PS_Forward ==
    /\ pc = "ps_forward"
    /\ send_idx <= Len(illusts_to_send)
    /\ LET last == Min(send_idx + batch_size - 1, Len(illusts_to_send))
           batch_imgs == SubSeq(illusts_to_send, send_idx, last)
           qs == qualities_to_try(pixiv_config.image_quality)
       IN \E nodes \in [1..Len(batch_imgs) -> NodeOutcomes(qs)] :
            /\ out' = Append(out, SendForward(batch_imgs,
                                  [k \in 1..Len(batch_imgs) |-> nodes[k].content]))
            /\ dl_log' = dl_log \o
                  SelectSeq([k \in 1..Len(batch_imgs) |->
                                [idx |-> send_idx + k - 1, quality |-> nodes[k].quality,
                                 outcome |-> nodes[k].outcome]],
                            LAMBDA e : e.outcome # "none")
            /\ pc' = IF last = Len(illusts_to_send) THEN "done" ELSE "ps_forward"
    /\ send_idx' = send_idx + batch_size
    /\ UNCHANGED <<cmd, call, image_host, config_at_start, fetch_log, catalogue, subVars, tagVars, searchVars, illusts, config,
                   filtered_illusts, filter_msgs, illusts_to_send>>

(***************************************************************************)
(* Initial values shared by the specifications.                            *)
(***************************************************************************)
NoTagResult ==
    [success |-> FALSE, error_message |-> [kind |-> "unset", text |-> <<>>],
     include_tags |-> <<>>, exclude_tags |-> <<>>, search_tags |-> <<>>,
     display_tags |-> <<>>]

PixivConfig(r18, ai, return_count, show, threshold, depth, token) ==
    [r18_mode |-> r18, ai_filter_mode |-> ai, return_count |-> return_count,
     show_filter_result |-> show, forward_threshold |-> threshold,
     deep_search_depth |-> depth, refresh_token |-> token,
     image_quality |-> "original"]

IdleConfig == PixivConfig(R18_FILTER, AI_SHOW, 1, TRUE, 1, 1, TRUE)
IdleFilterConfig == FilterConfig(R18_FILTER, AI_SHOW, None, None, 1, TRUE, <<>>, 1)

TagsIdle == tags = <<>> /\ tag_result = NoTagResult

SearchIdle ==
    /\ pixiv_config = IdleConfig
    /\ authed = 0
    /\ deep_search_depth = 0
    /\ page_count = 0
    /\ next_params = "none"
    /\ all_illusts = <<>>
    /\ requests = 0
    /\ resp_log = <<>>

SendIdle ==
    /\ filtered_illusts = <<>>
    /\ filter_msgs = <<>>
    /\ illusts_to_send = <<>>
    /\ send_idx = 1
    /\ out = <<>>

\* no function is applied on its own
NoCall == [kind |-> "none"]

\* no download has been attempted, the image host answers every request and
\* the configuration is the one the command starts with
\* no subscription, no job and no subscription command
IdlePoll == [pc |-> "idle"]

NoSubCommand == [pc |-> "none"]

SubsIdle ==
    /\ store = {}
    /\ artist_illusts = 0
    /\ poll = IdlePoll
    /\ sub_cmd = NoSubCommand
    /\ sub_out = <<>>

DownloadIdle ==
    /\ dl_log = <<>>
    /\ image_host = "up"
    /\ config_at_start = pixiv_config
    /\ fetch_log = <<>>
    /\ catalogue = "finite"
    /\ SubsIdle

AuxIdle == call = NoCall /\ DownloadIdle

(***************************************************************************)
(* SpecTags: validate_and_process_tags applied to every short tag string.  *)
(***************************************************************************)
Alphabet == {"a", "A", "b", "-", ",", " ", FullwidthComma}

InitTags ==
    /\ cmd = "validate"
    /\ pc = "validate"
    /\ tags \in SeqsUpTo(Alphabet, MaxStrLen)
    /\ tag_result = NoTagResult
    /\ SearchIdle
    /\ illusts = <<>>
    /\ config = IdleFilterConfig
    /\ SendIdle
    /\ AuxIdle

Validate ==
    /\ pc = "validate"
    /\ tag_result' = validate_and_process_tags(tags)
    /\ pc' = "done"
    /\ UNCHANGED <<cmd, auxVars, tags, searchVars, sendVars>>

NextTags == Validate

SpecTags == InitTags /\ [][NextTags]_vars

(***************************************************************************)
(* SpecSend: process_and_send_illusts on every short work list and config. *)
(***************************************************************************)
ExcludedChoices == {<<>>, <<Lower(T_AI)>>, <<Lower(T_dog)>>}

SendConfigs ==
    {FilterConfig(r18, ai, None, None, rc, show, excl, 1) :
        r18 \in R18Modes, ai \in AIModes, rc \in 1..2, show \in BOOLEAN,
        excl \in ExcludedChoices}

InitSend ==
    /\ cmd = "send"
    /\ pc = "ps_filter"
    /\ TagsIdle
    /\ SearchIdle
    /\ illusts \in SeqsUpTo(WorkPool, MaxWorks)
    /\ config \in SendConfigs
    /\ SendIdle
    /\ AuxIdle

NextSend == PS_Filter \/ PS_Sample \/ PS_Route \/ PS_Forward \/ PS_SendOne

SpecSend == InitSend /\ [][NextSend]_vars

(***************************************************************************)
(* SpecSample: sample_illusts applied to every short list and count.       *)
(***************************************************************************)
\* the counts handed to sample_illusts: negative, zero, below, at and above the length
SampleCounts == (-1)..(MaxWorks + 1)

InitSample ==
    /\ cmd = "sample"
    /\ pc = "sample"
    /\ TagsIdle
    /\ SearchIdle
    /\ illusts \in SeqsUpTo(WorkPool, MaxWorks)
    /\ config = IdleFilterConfig
    /\ SendIdle
    /\ DownloadIdle
    /\ \E count \in SampleCounts, shuffle \in BOOLEAN :
          call = [kind |-> "sample", count |-> count, shuffle |-> shuffle,
                  positions |-> <<>>]

Sample ==
    /\ pc = "sample"
    /\ \E r \in sample_illusts(illusts, call.count, call.shuffle) :
          /\ illusts_to_send' = r.selected
          /\ call' = [call EXCEPT !.kind = "sampled", !.positions = r.positions]
    /\ pc' = "done"
    /\ UNCHANGED <<cmd, dl_log, image_host, config_at_start, fetch_log, catalogue, subVars, tagVars, searchVars, illusts,
                   config,
                   filtered_illusts, filter_msgs, send_idx, out>>

NextSample == Sample

SpecSample == InitSample /\ [][NextSample]_vars

(***************************************************************************)
(* main.py: the search collaborator, pixiv_deepsearch and pixiv_and.       *)
(***************************************************************************)
\* what one call of self.client.search_illust can come back with: it raises,
\* it returns a response carrying only an error field, or it returns a page
Pages == {<<>>} \cup {<<w>> : w \in WorkPool}

Responses ==
    {[kind |-> "raise", works |-> <<>>, next_url |-> FALSE],
     [kind |-> "error", works |-> <<>>, next_url |-> FALSE]}
    \cup {[kind |-> "page", works |-> p, next_url |-> n] : p \in Pages, n \in BOOLEAN}

\* the pages of a catalogue that never ends: nothing, or one and the same work
EndlessPages == {<<>>, <<Work(1, <<T_cat, T_dog>>)>>}

\* the responses possible for the next call: the last page a finite
\* catalogue holds carries no next_url; an endless one always may carry one
ResponsesNow ==
    IF catalogue = "finite"
      THEN {r \in Responses : requests + 1 = MaxRequests => ~r.next_url}
      ELSE {r \in Responses : r.kind = "page" => r.works \in EndlessPages}

\* the calls of search_illust followed in one invocation
RequestCap == IF catalogue = "finite" THEN MaxRequests ELSE MaxLongFetch

MayRequest == requests < RequestCap

S_help == <<"h", "e", "l", "p">>

\* _authenticate(): client.auth is called only when a refresh token is set,
\* and the call may raise
AuthOutcomes == IF pixiv_config.refresh_token THEN BOOLEAN ELSE {FALSE}

AuthCalls == IF pixiv_config.refresh_token THEN 1 ELSE 0

\* FilterConfig(...) as both commands build it from self.pixiv_config
CommandFilterConfig(exclude_tags) ==
    FilterConfig(pixiv_config.r18_mode, pixiv_config.ai_filter_mode, None, None,
                 pixiv_config.return_count, pixiv_config.show_filter_result,
                 exclude_tags, pixiv_config.forward_threshold)

\* lines 1753-1811 of pixiv_deepsearch: usage, authentication, validation
DS_Start ==
    /\ cmd = "deepsearch"
    /\ pc = "start"
    /\ IF tags = <<>> \/ Lower(Strip(tags)) = S_help THEN
         /\ out' = Append(out, Plain([kind |-> "deepsearch_usage"]))
         /\ pc' = "done"
         /\ UNCHANGED <<authed, tag_result, deep_search_depth, next_params>>
       ELSE
         \E auth_ok \in AuthOutcomes :
           /\ authed' = authed + AuthCalls
           /\ IF ~auth_ok THEN
                /\ out' = Append(out, Plain([kind |-> "auth_failed"]))
                /\ pc' = "done"
                /\ UNCHANGED <<tag_result, deep_search_depth, next_params>>
              ELSE
                LET r == validate_and_process_tags(Strip(tags))
                IN /\ tag_result' = r
                   /\ IF ~r.success THEN
                        /\ out' = Append(out, Plain(r.error_message))
                        /\ pc' = "done"
                        /\ UNCHANGED <<deep_search_depth, next_params>>
                      ELSE
                        /\ deep_search_depth' = pixiv_config.deep_search_depth
                        /\ out' = Append(out, Plain([kind |-> "search_started"]))
                        /\ next_params' = "initial"
                        /\ pc' = "ds_loop"
    /\ UNCHANGED <<cmd, auxVars, tags, pixiv_config, page_count, all_illusts, requests, resp_log,
                   illusts, config, filtered_illusts, filter_msgs, illusts_to_send, send_idx>>

\* the depth test of line 1816 with > for >=
DS_DepthReachedOffByOne == deep_search_depth > 0 /\ page_count > deep_search_depth

\* the depth test of line 1816
DS_DepthReached == deep_search_depth > 0 /\ page_count >= deep_search_depth

\* the progress test of line 1833 passing on every page
ProgressDueEveryPage(count) == TRUE

\* the progress test of line 1833
ProgressDue(count) == count % 3 = 0

\* lines 1814-1847 and 1888-1893: one turn of the loop that issues a request
DS_Request ==
    /\ cmd = "deepsearch"
    /\ pc = "ds_loop"
    /\ next_params # "none"
    /\ ~DS_DepthReached
    /\ MayRequest
    /\ \E resp \in ResponsesNow :
         /\ requests' = requests + 1
         /\ resp_log' = Append(resp_log, resp)
         /\ IF resp.kind = "raise" THEN
              \* the handler's outer except
              /\ out' = Append(out, Plain([kind |-> "deepsearch_error"]))
              /\ pc' = "done"
              /\ fetch_log' = Append(fetch_log, "request")
              /\ UNCHANGED <<all_illusts, page_count, next_params>>
            ELSE IF resp.kind = "error" \/ resp.works = <<>> THEN
              \* no illusts attribute, or an empty page: break
              /\ pc' = "ds_after"
              /\ fetch_log' = Append(fetch_log, "request")
              /\ UNCHANGED <<out, all_illusts, page_count, next_params>>
            ELSE
              /\ all_illusts' = all_illusts \o resp.works
              /\ page_count' = page_count + 1
              /\ out' = IF ProgressDue(page_count + 1)
                          THEN Append(out, Plain([kind |-> "progress", pages |-> page_count + 1]))
                          ELSE out
              /\ next_params' = IF resp.next_url THEN "cursor" ELSE "none"
              \* line 1846: await asyncio.sleep(0.5) when there is a cursor
              /\ fetch_log' = fetch_log \o <<"request">>
                                \o (IF ProgressDue(page_count + 1) THEN <<"progress">> ELSE <<>>)
                                \o (IF resp.next_url THEN <<"sleep">> ELSE <<>>)
              /\ pc' = "ds_loop"
    /\ UNCHANGED <<cmd, call, dl_log, image_host, config_at_start, catalogue, subVars, tagVars,
                   pixiv_config, authed, deep_search_depth,
                   illusts, config, filtered_illusts, filter_msgs, illusts_to_send, send_idx>>

\* lines 1814-1817 and 1849-1861: the loop ends, the result count is reported
DS_After ==
    /\ cmd = "deepsearch"
    /\ \/ pc = "ds_after"
       \/ pc = "ds_loop" /\ (next_params = "none" \/ DS_DepthReached)
    /\ IF all_illusts = <<>> THEN
         /\ out' = Append(out, Plain([kind |-> "deepsearch_no_result"]))
         /\ pc' = "done"
       ELSE
         /\ out' = Append(out, Plain([kind |-> "search_complete", pages |-> page_count,
                                      count |-> Len(all_illusts)]))
         /\ pc' = "ds_process"
    /\ UNCHANGED <<cmd, auxVars, tagVars, searchVars, illusts, config, filtered_illusts,
                   filter_msgs, illusts_to_send, send_idx>>

\* lines 1863-1886: the FilterConfig is built and the works enter the pipeline
DS_Process ==
    /\ cmd = "deepsearch"
    /\ pc = "ds_process"
    /\ config' = CommandFilterConfig(tag_result.exclude_tags)
    /\ illusts' = all_illusts
    /\ pc' = "ps_filter"
    /\ UNCHANGED <<cmd, auxVars, tagVars, searchVars, filtered_illusts, filter_msgs,
                   illusts_to_send, send_idx, out>>

\* lines 1898-1958 of pixiv_and: help, validation, tag count, authentication
AND_Start ==
    /\ cmd = "and"
    /\ pc = "start"
    /\ IF Strip(tags) = <<>> THEN
         /\ out' = Append(out, Plain([kind |-> "and_help"]))
         /\ pc' = "done"
         /\ UNCHANGED <<authed, tag_result, deep_search_depth, next_params>>
       ELSE
         LET r == validate_and_process_tags(Strip(tags))
         IN /\ tag_result' = r
            /\ IF ~r.success THEN
                 /\ out' = Append(out, Plain(r.error_message))
                 /\ pc' = "done"
                 /\ UNCHANGED <<authed, deep_search_depth, next_params>>
               ELSE IF Len(r.include_tags) < 2 THEN
                 /\ out' = Append(out, Plain([kind |-> "and_needs_two_tags"]))
                 /\ pc' = "done"
                 /\ UNCHANGED <<authed, deep_search_depth, next_params>>
               ELSE
                 \E auth_ok \in AuthOutcomes :
                   /\ authed' = authed + AuthCalls
                   /\ IF ~auth_ok THEN
                        /\ out' = Append(out, Plain([kind |-> "auth_failed"]))
                        /\ pc' = "done"
                        /\ UNCHANGED <<deep_search_depth, next_params>>
                      ELSE
                        /\ deep_search_depth' = pixiv_config.deep_search_depth
                        /\ out' = Append(out, Plain([kind |-> "search_started"]))
                        /\ next_params' = "none"
                        /\ pc' = "and_loop"
    /\ UNCHANGED <<cmd, auxVars, tags, pixiv_config, page_count, all_illusts, requests, resp_log,
                   illusts, config, filtered_illusts, filter_msgs, illusts_to_send, send_idx>>

\* the loop condition of line 1960
AND_LoopCondition == deep_search_depth = -1 \/ page_count < deep_search_depth

\* lines 1960-2025: one turn of the loop
AND_Request ==
    /\ cmd = "and"
    /\ pc = "and_loop"
    /\ AND_LoopCondition
    /\ IF page_count # 0 /\ next_params = "none" THEN
         \* lines 1973-1977: no parameters to turn the page with
         /\ pc' = "and_filter"
         /\ UNCHANGED <<requests, resp_log, out, all_illusts, page_count, next_params,
                        fetch_log>>
       ELSE
         \E resp \in ResponsesNow :
           /\ MayRequest
           /\ requests' = requests + 1
           /\ fetch_log' = Append(fetch_log, "request")
           /\ resp_log' = Append(resp_log, resp)
           /\ IF resp.kind = "raise" THEN
                /\ out' = Append(out, Plain([kind |-> "and_api_exception",
                                             page |-> page_count + 1]))
                /\ pc' = "and_filter"
                /\ UNCHANGED <<all_illusts, page_count, next_params>>
              ELSE IF resp.kind = "error" THEN
                /\ out' = Append(out, Plain([kind |-> "and_api_error",
                                             page |-> page_count + 1]))
                /\ pc' = "and_filter"
                /\ UNCHANGED <<all_illusts, page_count, next_params>>
              ELSE
                /\ all_illusts' = all_illusts \o resp.works
                /\ out' = out
                /\ IF resp.next_url THEN
                     /\ next_params' = "cursor"
                     /\ page_count' = page_count + 1
                     /\ pc' = "and_loop"
                   ELSE
                     /\ pc' = "and_filter"
                     /\ UNCHANGED <<page_count, next_params>>
    /\ UNCHANGED <<cmd, call, dl_log, image_host, config_at_start, catalogue, subVars, tagVars,
                   pixiv_config, authed, deep_search_depth,
                   illusts, config, filtered_illusts, filter_msgs, illusts_to_send, send_idx>>

\* the tag names of a work, lowercased
TagsLower(illust) == {Lower(illust.tags[i].name.chars) : i \in 1..Len(illust.tags)}

\* the local AND test of lines 2036-2038, comparing the work's tag names as they are
HasOtherTagsCaseSensitive(illust, other_tags) ==
    {Lower(t) : t \in Range(other_tags)}
        \subseteq {illust.tags[i].name.chars : i \in 1..Len(illust.tags)}

\* the local AND test of lines 2034-2038
HasOtherTags(illust, other_tags) ==
    {Lower(t) : t \in Range(other_tags)} \subseteq TagsLower(illust)

\* lines 2031-2039: the local AND filter
and_filter(from_first_tag, include_tags) ==
    IF from_first_tag = <<>> THEN <<>>
    ELSE SelectSeq(from_first_tag, LAMBDA illust : HasOtherTags(illust, Tail(include_tags)))

\* lines 2027-2069: the local AND filter, then the pipeline
AND_Filter ==
    /\ cmd = "and"
    /\ \/ pc = "and_filter"
       \/ pc = "and_loop" /\ ~AND_LoopCondition
    /\ illusts' = and_filter(all_illusts, tag_result.include_tags)
    /\ config' = CommandFilterConfig(tag_result.exclude_tags)
    /\ pc' = "ps_filter"
    /\ UNCHANGED <<cmd, auxVars, tagVars, searchVars, filtered_illusts, filter_msgs,
                   illusts_to_send, send_idx, out>>

(***************************************************************************)
(* SpecSearch: one invocation of pixiv_deepsearch or of pixiv_and.         *)
(***************************************************************************)
\* "cat,DOG"
S_cat_DOG == T_cat \o <<",">> \o T_DOG
\* " cat,-ai"
S_cat_not_ai == <<" ">> \o T_cat \o <<",", "-">> \o Lower(T_AI)
\* "cat,-CAT"
S_cat_not_CAT == T_cat \o <<",", "-", "C", "A", "T">>

SearchTagStrings == {<<>>, S_cat_DOG, S_cat_not_ai, S_cat_not_CAT}

SearchConfigs ==
    {PixivConfig(r18, AI_SHOW, 2, show, 1, depth, token) :
        r18 \in {R18_FILTER, R18_ALLOW}, show \in BOOLEAN, depth \in -1..MaxDepth,
        token \in BOOLEAN}

InitSearch ==
    /\ cmd \in {"deepsearch", "and"}
    /\ pc = "start"
    /\ tags \in SearchTagStrings
    /\ tag_result = NoTagResult
    /\ pixiv_config \in SearchConfigs
    /\ authed = 0
    /\ deep_search_depth = 0
    /\ page_count = 0
    /\ next_params = "none"
    /\ all_illusts = <<>>
    /\ requests = 0
    /\ resp_log = <<>>
    /\ illusts = <<>>
    /\ config = IdleFilterConfig
    /\ SendIdle
    /\ AuxIdle

NextSearch ==
    \/ DS_Start \/ DS_Request \/ DS_After \/ DS_Process
    \/ AND_Start \/ AND_Request \/ AND_Filter
    \/ PS_Filter \/ PS_Sample \/ PS_Route \/ PS_Forward \/ PS_SendOne

SpecSearch == InitSearch /\ [][NextSearch]_vars

(***************************************************************************)
(* SpecFetch: one invocation of pixiv_deepsearch or of pixiv_and against a *)
(* catalogue that never ends, followed for MaxLongFetch requests; and      *)
(* SpecFetchLive, the same where a handler that can take a step takes it.  *)
(***************************************************************************)
FetchConfigs ==
    {PixivConfig(R18_FILTER, AI_SHOW, 2, TRUE, 1, depth, TRUE) :
        depth \in {-1} \cup 1..MaxLongFetch}

InitFetch ==
    /\ cmd \in {"deepsearch", "and"}
    /\ pc = "start"
    /\ tags = S_cat_DOG
    /\ tag_result = NoTagResult
    /\ pixiv_config \in FetchConfigs
    /\ authed = 0
    /\ deep_search_depth = 0
    /\ page_count = 0
    /\ next_params = "none"
    /\ all_illusts = <<>>
    /\ requests = 0
    /\ resp_log = <<>>
    /\ illusts = <<>>
    /\ config = IdleFilterConfig
    /\ SendIdle
    /\ call = NoCall
    /\ dl_log = <<>>
    /\ image_host = "up"
    /\ config_at_start = pixiv_config
    /\ fetch_log = <<>>
    /\ catalogue = "endless"
    /\ SubsIdle

NextFetch == NextSearch

SpecFetch == InitFetch /\ [][NextFetch]_vars

\* the event loop resumes a handler that can continue
SpecFetchLive == SpecFetch /\ WF_vars(NextFetch)

(***************************************************************************)
(* utils/config.py: validate_and_set_config, behind the pixiv_config       *)
(* command.  A value is the text the user typed: a sequence of characters  *)
(* for numbers and booleans, a sequence of words, blanks and underscores   *)
(* for the choices of an enum.                                             *)
(***************************************************************************)
\* schema[key]["type"]
SchemaType ==
    [r18_mode |-> "enum", ai_filter_mode |-> "enum", image_quality |-> "enum",
     return_count |-> "int", deep_search_depth |-> "int", forward_threshold |-> "int",
     show_filter_result |-> "bool"]

\* schema[key]["min"] and schema[key]["max"]
SchemaRange ==
    [return_count |-> [min |-> 1, max |-> 30],
     deep_search_depth |-> [min |-> -1, max |-> 50],
     forward_threshold |-> [min |-> 1, max |-> 20]]

\* schema[key]["choices"]: each choice with its text
SchemaChoices ==
    [r18_mode |->
        {[choice |-> R18_FILTER, text |-> <<"filter", " ", "R18">>],
         [choice |-> R18_ALLOW, text |-> <<"allow", " ", "R18">>],
         [choice |-> R18_ONLY, text |-> <<"only", " ", "R18">>]},
     ai_filter_mode |->
        {[choice |-> AI_SHOW, text |-> <<"show", " ", "AI", " ", "works">>],
         [choice |-> AI_FILTER, text |-> <<"filter", " ", "AI", " ", "works">>],
         [choice |-> AI_ONLY, text |-> <<"only", " ", "AI", " ", "works">>]},
     image_quality |->
        {[choice |-> "original", text |-> <<"original">>],
         [choice |-> "large", text |-> <<"large">>],
         [choice |-> "medium", text |-> <<"medium">>]}]

Digits == <<"0", "1", "2", "3", "4", "5", "6", "7", "8", "9">>

DigitValue(c) == (CHOOSE i \in 1..Len(Digits) : Digits[i] = c) - 1

\* the decimal number a non-empty string of digits writes
RECURSIVE DecimalValue(_)
DecimalValue(ds) ==
    IF Len(ds) = 1 THEN DigitValue(ds[1])
    ELSE 10 * DecimalValue(SubSeq(ds, 1, Len(ds) - 1)) + DigitValue(ds[Len(ds)])

\* int(value): the number, or a ValueError
ParseInt(value) ==
    LET t == Strip(value)
        signed == t # <<>> /\ Head(t) \in {"-", "+"}
        ds == IF signed THEN Tail(t) ELSE t
    IN IF ds # <<>> /\ \A i \in 1..Len(ds) : ds[i] \in Range(Digits)
         THEN [ok |-> TRUE,
               n |-> IF signed /\ Head(t) = "-" THEN 0 - DecimalValue(ds)
                     ELSE DecimalValue(ds)]
         ELSE [ok |-> FALSE, n |-> 0]

BoolTrueWords ==
    {<<"t", "r", "u", "e">>, <<"1">>, <<"y", "e", "s">>, <<"o", "n">>}

BoolFalseWords ==
    {<<"f", "a", "l", "s", "e">>, <<"0">>, <<"n", "o">>, <<"o", "f", "f">>}

\* validate_and_set_config(key, value) on the configuration cfg; save_ok says
\* whether save_config() returns or raises.  The attribute is set before the save.
validate_and_set_config(cfg, key, value, save_ok) ==
    LET refused(m) == [success |-> FALSE, message |-> m, config |-> cfg]
        set(v) == [success |-> save_ok,
                   message |-> IF save_ok THEN "updated" ELSE "set_failed",
                   config |-> [cfg EXCEPT ![key] = v]]
    IN IF key \notin DOMAIN SchemaType THEN refused("unsupported_key")
       ELSE IF SchemaType[key] = "enum" THEN
         LET choices == SchemaChoices[key]
             by_key == {c \in choices : ReplaceChar(c.text, " ", "_") = value}
             value_normalized ==
                 IF by_key # {} THEN (CHOOSE c \in by_key : TRUE).text
                 ELSE ReplaceChar(value, "_", " ")
             chosen == {c \in choices : c.text = value_normalized}
         IN IF chosen = {} THEN refused("invalid_choice")
            ELSE set((CHOOSE c \in chosen : TRUE).choice)
       ELSE IF SchemaType[key] = "bool" THEN
         LET v == Lower(value)
         IN IF v \in BoolTrueWords THEN set(TRUE)
            ELSE IF v \in BoolFalseWords THEN set(FALSE)
            ELSE refused("invalid_bool")
       ELSE
         LET v == ParseInt(value)
         IN IF ~v.ok THEN refused("not_an_integer")
            ELSE IF v.n < SchemaRange[key].min \/ v.n > SchemaRange[key].max
              THEN refused("out_of_range")
            ELSE set(v.n)

\* what the pixiv_config command is given: a key and the text of a value
ConfigInputs ==
    {[key |-> "r18_mode", value |-> <<"allow", "_", "R18">>],
     [key |-> "r18_mode", value |-> <<"no", " ", "R18">>],
     [key |-> "ai_filter_mode", value |-> <<"only", " ", "AI", " ", "works">>],
     [key |-> "return_count", value |-> <<"1">>],
     [key |-> "return_count", value |-> <<"3", "1">>],
     [key |-> "return_count", value |-> <<"a">>],
     [key |-> "forward_threshold", value |-> <<" ", "2">>],
     [key |-> "show_filter_result", value |-> <<"O", "F", "F">>],
     [key |-> "show_filter_result", value |-> <<"2">>],
     [key |-> "deep_search_depth", value |-> <<"-", "1">>],
     [key |-> "colour", value |-> <<"1">>]}

MaxConfigCommands == 1   \* pixiv_config commands arriving during one search

\* lines 1737-1744 of main.py and 281-297 of config.py: a pixiv_config command
\* with two arguments, handled while the search command is suspended
ConfigSet ==
    /\ pc \notin {"start", "done"}
    /\ call.commands < MaxConfigCommands
    /\ \E input \in ConfigInputs, save_ok \in BOOLEAN :
         LET r == validate_and_set_config(pixiv_config, input.key, input.value, save_ok)
         IN /\ pixiv_config' = r.config
            /\ call' = [kind |-> "pixiv_config", commands |-> call.commands + 1,
                        success |-> r.success, message |-> r.message]
    /\ UNCHANGED <<cmd, pc, dl_log, image_host, config_at_start, fetch_log, catalogue, subVars, tagVars, authed,
                   deep_search_depth, page_count, next_params, all_illusts, requests,
                   resp_log, sendVars>>

(***************************************************************************)
(* SpecConcurrent: pixiv_deepsearch with pixiv_config commands interleaved *)
(* at its suspension points.                                               *)
(***************************************************************************)
InitConcurrent ==
    /\ cmd = "deepsearch"
    /\ pc = "start"
    /\ tags = S_cat_DOG
    /\ tag_result = NoTagResult
    /\ pixiv_config \in {PixivConfig(R18_FILTER, AI_SHOW, 2, TRUE, 1, depth, TRUE) :
                             depth \in 1..2}
    /\ authed = 0
    /\ deep_search_depth = 0
    /\ page_count = 0
    /\ next_params = "none"
    /\ all_illusts = <<>>
    /\ requests = 0
    /\ resp_log = <<>>
    /\ illusts = <<>>
    /\ config = IdleFilterConfig
    /\ SendIdle
    /\ DownloadIdle
    /\ call = [kind |-> "pixiv_config", commands |-> 0, success |-> FALSE,
               message |-> "none"]

NextConcurrent ==
    \/ DS_Start \/ DS_Request \/ DS_After \/ DS_Process
    \/ PS_Filter \/ PS_Sample \/ PS_Route \/ PS_Forward \/ PS_SendOne
    \/ ConfigSet

SpecConcurrent == InitConcurrent /\ [][NextConcurrent]_vars

(***************************************************************************)
(* main.py: pixiv_ranking.                                                 *)
(***************************************************************************)
valid_modes ==
    {<<"d", "a", "y">>,
     <<"w", "e", "e", "k">>,
     <<"m", "o", "n", "t", "h">>,
     <<"d", "a", "y", "_", "m", "a", "l", "e">>,
     <<"d", "a", "y", "_", "f", "e", "m", "a", "l", "e">>,
     <<"w", "e", "e", "k", "_", "o", "r", "i", "g", "i", "n", "a", "l">>,
     <<"w", "e", "e", "k", "_", "r", "o", "o", "k", "i", "e">>,
     <<"d", "a", "y", "_", "m", "a", "n", "g", "a">>,
     <<"d", "a", "y", "_", "r", "1", "8">>,
     <<"d", "a", "y", "_", "m", "a", "l", "e", "_", "r", "1", "8">>,
     <<"d", "a", "y", "_", "f", "e", "m", "a", "l", "e", "_", "r", "1", "8">>,
     <<"w", "e", "e", "k", "_", "r", "1", "8">>,
     <<"w", "e", "e", "k", "_", "r", "1", "8", "g">>}

S_r18 == <<"r", "1", "8">>

\* the date test of lines 380-390: three "-"-separated parts of 4, 2 and 2 characters
ValidDate(date) ==
    LET parts == Split(date, "-")
    IN Len(parts) = 3 /\ Len(parts[1]) = 4 /\ Len(parts[2]) = 2 /\ Len(parts[3]) = 2

\* what illust_ranking can come back with: a raise, or a ranking list in ranking order
RankingResponses ==
    {[kind |-> "raise", works |-> <<>>]}
        \cup {[kind |-> "page", works |-> ws] : ws \in SeqsUpTo(WorkPool, MaxWorks)}

\* lines 344-406 of pixiv_ranking: help, mode, date, R18 permission, authentication
RK_Start ==
    /\ cmd = "ranking"
    /\ pc = "start"
    /\ LET args_list == call.args
           mode == args_list[1]
       IN IF args_list = <<>> \/ Lower(args_list[1]) = S_help THEN
            /\ out' = Append(out, Plain([kind |-> "ranking_help"]))
            /\ pc' = "done"
            /\ authed' = authed
          ELSE IF mode \notin valid_modes THEN
            /\ out' = Append(out, Plain([kind |-> "ranking_invalid_mode"]))
            /\ pc' = "done"
            /\ authed' = authed
          ELSE IF Len(args_list) > 1 /\ ~ValidDate(args_list[2]) THEN
            /\ out' = Append(out, Plain([kind |-> "ranking_invalid_date"]))
            /\ pc' = "done"
            /\ authed' = authed
          ELSE IF IsSubstr(S_r18, mode) /\ pixiv_config.r18_mode = R18_FILTER THEN
            /\ out' = Append(out, Plain([kind |-> "ranking_r18_not_allowed"]))
            /\ pc' = "done"
            /\ authed' = authed
          ELSE
            \E auth_ok \in AuthOutcomes :
              /\ authed' = authed + AuthCalls
              /\ IF ~auth_ok THEN
                   /\ out' = Append(out, Plain([kind |-> "auth_failed"]))
                   /\ pc' = "done"
                 ELSE
                   /\ out' = out
                   /\ pc' = "rk_request"
    /\ UNCHANGED <<cmd, auxVars, tagVars, pixiv_config, deep_search_depth, page_count,
                   next_params, all_illusts, requests, resp_log, illusts, config,
                   filtered_illusts, filter_msgs, illusts_to_send, send_idx>>

\* lines 408-428 and 442-444: the ranking request and the FilterConfig
RK_Request ==
    /\ cmd = "ranking"
    /\ pc = "rk_request"
    /\ \E resp \in RankingResponses :
         /\ requests' = requests + 1
         /\ resp_log' = Append(resp_log, [kind |-> resp.kind, works |-> resp.works,
                                          next_url |-> FALSE])
         /\ IF resp.kind = "raise" THEN
              /\ out' = Append(out, Plain([kind |-> "ranking_error"]))
              /\ pc' = "done"
              /\ UNCHANGED <<illusts, config>>
            ELSE IF resp.works = <<>> THEN
              /\ out' = Append(out, Plain([kind |-> "ranking_no_data"]))
              /\ pc' = "done"
              /\ UNCHANGED <<illusts, config>>
            ELSE
              /\ illusts' = resp.works
              /\ config' = CommandFilterConfig(<<>>)
              /\ out' = out
              /\ pc' = "ps_filter"
    /\ UNCHANGED <<cmd, auxVars, tagVars, pixiv_config, authed, deep_search_depth,
                   page_count, next_params, all_illusts, filtered_illusts, filter_msgs,
                   illusts_to_send, send_idx>>

(***************************************************************************)
(* SpecRanking: one invocation of pixiv_ranking.                           *)
(***************************************************************************)
A_day == <<"d", "a", "y">>
A_day_r18 == <<"d", "a", "y", "_", "r", "1", "8">>
A_dai == <<"d", "a", "i">>
A_date == <<"2", "0", "2", "4", "-", "0", "1", "-", "0", "2">>
A_short_date == <<"2", "4", "-", "1", "-", "2">>

RankingArgs ==
    {<<>>, <<S_help>>, <<A_dai>>, <<A_day>>, <<A_day_r18>>,
     <<A_day, A_date>>, <<A_day, A_short_date>>}

RankingConfigs ==
    {PixivConfig(r18, AI_SHOW, rc, TRUE, 1, 1, token) :
        r18 \in R18Modes, rc \in 1..2, token \in BOOLEAN}

InitRanking ==
    /\ cmd = "ranking"
    /\ pc = "start"
    /\ TagsIdle
    /\ pixiv_config \in RankingConfigs
    /\ authed = 0
    /\ deep_search_depth = 0
    /\ page_count = 0
    /\ next_params = "none"
    /\ all_illusts = <<>>
    /\ requests = 0
    /\ resp_log = <<>>
    /\ illusts = <<>>
    /\ config = IdleFilterConfig
    /\ SendIdle
    /\ DownloadIdle
    /\ \E args \in RankingArgs : call = [kind |-> "ranking", args |-> args]

NextRanking ==
    \/ RK_Start \/ RK_Request
    \/ PS_Filter \/ PS_Sample \/ PS_Route \/ PS_Forward \/ PS_SendOne

SpecRanking == InitRanking /\ [][NextRanking]_vars

(***************************************************************************)
(* SpecDispatch: the dispatch of a selection, from the size test on.       *)
(***************************************************************************)
MaxSelected == 21   \* longest selection dispatched with the image host up

\* n works with the ids 1..n
DistinctWorks(n) == [i \in 1..n |-> Work(i, <<T_cat>>)]

\* the selections dispatched while the image host is flaky
FlakySelections ==
    {<<Work(1, <<T_cat>>)>>,
     <<Work(1, <<T_cat>>), Work(2, <<T_dog>>)>>,
     <<Work(1, <<T_cat>>), Work(1, <<T_cat>>)>>}

\* the state process_and_send_illusts is in once sample_illusts has returned sel
Selected(sel, threshold) ==
    /\ illusts = sel
    /\ config = FilterConfig(R18_ALLOW, AI_SHOW, None, None, Len(sel), FALSE, <<>>,
                             threshold)
    /\ filtered_illusts = sel
    /\ filter_msgs = <<>>
    /\ illusts_to_send = sel
    /\ send_idx = 1
    /\ out = <<>>

InitDispatch ==
    /\ cmd = "dispatch"
    /\ pc = "ps_route"
    /\ TagsIdle
    /\ authed = 0
    /\ deep_search_depth = 0
    /\ page_count = 0
    /\ next_params = "none"
    /\ all_illusts = <<>>
    /\ requests = 0
    /\ resp_log = <<>>
    /\ call = NoCall
    /\ dl_log = <<>>
    /\ fetch_log = <<>>
    /\ catalogue = "finite"
    /\ SubsIdle
    /\ \E q \in Range(quality_preference) :
          pixiv_config = [IdleConfig EXCEPT !.image_quality = q]
    /\ config_at_start = pixiv_config
    /\ \/ /\ image_host = "up"
          /\ \E n \in 1..MaxSelected, threshold \in 1..20 :
                Selected(DistinctWorks(n), threshold)
       \/ /\ image_host = "flaky"
          /\ \E sel \in FlakySelections, threshold \in 1..2 : Selected(sel, threshold)

NextDispatch == PS_Route \/ PS_Forward \/ PS_SendOne

SpecDispatch == InitDispatch /\ [][NextDispatch]_vars

(***************************************************************************)
(* SpecClassify: is_r18 and is_ai applied on their own to a work whose     *)
(* second tag name is any string over ClassifyAlphabet.                    *)
(***************************************************************************)
MaxNameLen == 5     \* longest tag name enumerated for the classifier

ClassifyAlphabet == {"a", "i", "I", " ", "f", "r", "1", "8"}

InitClassify ==
    /\ cmd = "classify"
    /\ pc = "classify"
    /\ TagsIdle
    /\ SearchIdle
    /\ \E name \in SeqsUpTo(ClassifyAlphabet, MaxNameLen) :
          illusts = <<Work(1, <<T_cat, name>>)>>
    /\ config = IdleFilterConfig
    /\ SendIdle
    /\ AuxIdle

Classify ==
    /\ pc = "classify"
    /\ call' = [kind |-> "classified", r18 |-> is_r18(illusts[1]),
                ai |-> is_ai(illusts[1])]
    /\ pc' = "done"
    /\ UNCHANGED <<cmd, dl_log, image_host, config_at_start, fetch_log, catalogue, subVars, tagVars, searchVars,
                   sendVars>>

NextClassify == Classify

SpecClassify == InitClassify /\ [][NextClassify]_vars

(***************************************************************************)
(* SpecMalformed: filter_illusts_with_reason applied on its own to works   *)
(* whose tag lists hold malformed entries among well-formed ones.          *)
(***************************************************************************)
\* works with a null entry, a non-str entry, mappings whose name is null or
\* not a str, and a bare str entry, before and after well-formed entries
MalformedPool ==
    { [id |-> 1, tags |-> <<DictTag(Str(T_cat)), PyNone, Bytes(T_dog)>>],
      [id |-> 2, tags |-> <<PyNone, DictTag(Str(T_R18))>>],
      [id |-> 3, tags |-> <<DictTag(PyNone), Bytes(T_AI), DictTag(Str(T_dog))>>],
      [id |-> 4, tags |-> <<DictTag(Bytes(T_R18)), Str(T_AI)>>] }

InitMalformed ==
    /\ cmd = "filter"
    /\ pc = "filter"
    /\ TagsIdle
    /\ SearchIdle
    /\ illusts \in SeqsUpTo(MalformedPool, MaxWorks)
    /\ config \in SendConfigs
    /\ SendIdle
    /\ AuxIdle

\* one call of filter_illusts_with_reason: it returns its result, or an
\* exception of a classifier leaves it
FilterCall ==
    /\ pc = "filter"
    /\ IF \E i \in 1..Len(illusts) : classifier_raises(illusts[i])
         THEN /\ call' = [kind |-> "raised"]
              /\ UNCHANGED <<filtered_illusts, filter_msgs>>
         ELSE LET r == filter_illusts_with_reason(illusts, config)
              IN /\ call' = [kind |-> "returned"]
                 /\ filtered_illusts' = r.filtered
                 /\ filter_msgs' = r.msgs
    /\ pc' = "done"
    /\ UNCHANGED <<cmd, dl_log, image_host, config_at_start, fetch_log, catalogue, subVars, tagVars, searchVars,
                   illusts, config, illusts_to_send, send_idx, out>>

NextMalformed == FilterCall

SpecMalformed == InitMalformed /\ [][NextMalformed]_vars

(***************************************************************************)
(* SpecEmit: process_and_send_illusts with a FilterConfig built by any     *)
(* caller, return_count 0 included.                                        *)
(***************************************************************************)
EmitConfigs ==
    {FilterConfig(r18, AI_SHOW, None, None, rc, show, <<>>, 1) :
        r18 \in R18Modes, rc \in 0..2, show \in BOOLEAN}

InitEmit ==
    /\ cmd = "emit"
    /\ pc = "ps_filter"
    /\ TagsIdle
    /\ SearchIdle
    /\ illusts \in SeqsUpTo(WorkPool, MaxWorks)
    /\ config \in EmitConfigs
    /\ SendIdle
    /\ AuxIdle

NextEmit == NextSend

SpecEmit == InitEmit /\ [][NextEmit]_vars

(***************************************************************************)
(* utils/database.py: the Subscription table.                              *)
(***************************************************************************)
MaxIllustId == 2    \* the largest work id the subscribed artist publishes

Chats == {"c1", "c2"}

S_7 == <<"7">>
S_8 == <<"8">>

\* artist ids given to the database functions
Artists == {S_7, S_8}

\* a target_name argument: None, or a name
Names == {<<>>, <<"n">>}

\* target_name or target_id
NameOr(target_name, target_id) == IF target_name = <<>> THEN target_id ELSE target_name

Row(chat_id, session_id, target_id, target_name, last_id) ==
    [chat_id |-> chat_id, session_id |-> session_id, sub_type |-> "artist",
     target_id |-> target_id, target_name |-> target_name,
     last_notified_illust_id |-> last_id]

\* the rows with the composite primary key (chat_id, sub_type, target_id)
RowsOf(st, chat_id, sub_type, target_id) ==
    {r \in st : r.chat_id = chat_id /\ r.sub_type = sub_type /\ r.target_id = target_id}

\* add_subscription inserting whatever the table holds
AddWithoutPrimaryKey(st, chat_id, session_id, target_id, target_name, initial_illust_id) ==
    [success |-> TRUE, message |-> "subscribed",
     store |-> st \cup {Row(chat_id, session_id, target_id,
                            NameOr(target_name, target_id), initial_illust_id)}]

\* add_subscription: Subscription.create raises IntegrityError on a stored key
add_subscription(st, chat_id, session_id, target_id, target_name, initial_illust_id) ==
    IF RowsOf(st, chat_id, "artist", target_id) # {}
      THEN [success |-> FALSE, message |-> "already_subscribed", store |-> st]
      ELSE [success |-> TRUE, message |-> "subscribed",
            store |-> st \cup {Row(chat_id, session_id, target_id,
                                   NameOr(target_name, target_id), initial_illust_id)}]

remove_subscription(st, chat_id, sub_type, target_id) ==
    LET deleted_rows == Cardinality(RowsOf(st, chat_id, sub_type, target_id))
    IN IF deleted_rows > 0
         THEN [success |-> TRUE, message |-> "unsubscribed",
               store |-> st \ RowsOf(st, chat_id, sub_type, target_id)]
         ELSE [success |-> FALSE, message |-> "not_subscribed", store |-> st]

\* update_last_notified_id: the table after the UPDATE ... WHERE
update_last_notified_id(st, chat_id, sub_type, target_id, new_id) ==
    {IF r \in RowsOf(st, chat_id, sub_type, target_id)
        THEN [r EXCEPT !.last_notified_illust_id = new_id] ELSE r : r \in st}

\* the session id pixiv_subscribe_add builds for a chat
SessionOf(chat_id) == <<"platform", "message_type", chat_id>>

(***************************************************************************)
(* SpecStore: add_subscription and remove_subscription called in any order *)
(* on a table that starts empty.                                           *)
(***************************************************************************)
InitStore ==
    /\ cmd = "store"
    /\ pc = "store"
    /\ TagsIdle
    /\ SearchIdle
    /\ illusts = <<>>
    /\ config = IdleFilterConfig
    /\ SendIdle
    /\ call = [kind |-> "none"]
    /\ DownloadIdle

AddCall ==
    /\ pc = "store"
    /\ \E chat_id \in Chats, target_id \in Artists, target_name \in Names,
          initial_illust_id \in 0..MaxIllustId :
          LET r == add_subscription(store, chat_id, SessionOf(chat_id), target_id,
                                    target_name, initial_illust_id)
          IN /\ store' = r.store
             /\ call' = [kind |-> "add_subscription", chat_id |-> chat_id,
                         target_id |-> target_id, success |-> r.success,
                         message |-> r.message, before |-> store]
    /\ UNCHANGED <<cmd, pc, dl_log, image_host, config_at_start, fetch_log, catalogue,
                   artist_illusts, poll, sub_cmd, sub_out, tagVars, searchVars, sendVars>>

RemoveCall ==
    /\ pc = "store"
    /\ \E chat_id \in Chats, target_id \in Artists :
          LET r == remove_subscription(store, chat_id, "artist", target_id)
          IN /\ store' = r.store
             /\ call' = [kind |-> "remove_subscription", chat_id |-> chat_id,
                         target_id |-> target_id, success |-> r.success,
                         message |-> r.message, before |-> store]
    /\ UNCHANGED <<cmd, pc, dl_log, image_host, config_at_start, fetch_log, catalogue,
                   artist_illusts, poll, sub_cmd, sub_out, tagVars, searchVars, sendVars>>

NextStore == AddCall \/ RemoveCall

SpecStore == InitStore /\ [][NextStore]_vars

(***************************************************************************)
(* utils/subscription.py and main.py: the subscription job and commands.   *)
(***************************************************************************)
MaxSubCommands == 3   \* subscription commands followed in one behaviour

\* the attributes a PixivSearchPlugin instance has: those main.py assigns or
\* defines, and the context its base class keeps
PluginAttributes ==
    {"context", "config", "pixiv_config", "config_manager", "client", "sub_service",
     "temp_dir", "font_path", "_authenticate", "_get_http_session",
     "pixiv_subscribe_add", "pixiv_subscribe_remove", "pixiv_subscribe_list"}

\* the work the subscribed artist published with the id i
IllustOf(i) == Work(i, IF i % 2 = 0 THEN <<T_cat, T_R18>> ELSE <<T_cat>>)

\* api.user_illusts: the artist's works, newest first
user_illusts(newest) == [k \in 1..newest |-> IllustOf(newest + 1 - k)]

\* lines 59-67 of check_artist_updates: the leading works with an id above
\* the watermark, then reversed
new_illusts_of(ills, last_id) ==
    LET n == IF \A k \in 1..Len(ills) : ills[k].id > last_id THEN Len(ills)
             ELSE (CHOOSE k \in 1..Len(ills) :
                      ills[k].id <= last_id /\ \A j \in 1..(k - 1) : ills[j].id > last_id) - 1
    IN [k \in 1..n |-> ills[n + 1 - k]]

\* pixiv_utils.filter_items([illust], label): the FilterConfig of lines 35-43
SubscriptionFilterConfig ==
    FilterConfig(pixiv_config.r18_mode, pixiv_config.ai_filter_mode, None, None,
                 pixiv_config.return_count, pixiv_config.show_filter_result, <<>>, 5)

\* lines 71-75 and 77-118: the works of new_illusts that reach the session.
\* self.plugin.filter_items raises AttributeError at the first work, which
\* ends check_artist_updates; self.plugin.send_pixiv_image raises inside the
\* try of send_update.
sent_updates(new_illusts) ==
    IF "filter_items" \notin PluginAttributes THEN <<>>
    ELSE IF {"send_pixiv_image", "show_details"} \subseteq PluginAttributes
      THEN SelectSeq(new_illusts, LAMBDA w : _apply_filters(w, SubscriptionFilterConfig))
      ELSE <<>>

Reply(command, chat_id, success, message) ==
    [kind |-> "reply", cmd |-> command, chat_id |-> chat_id, success |-> success,
     message |-> message]

\* lines 35-41 of check_subscriptions: authenticate, read the table
PollStart ==
    /\ poll.pc = "idle"
    /\ \E auth_ok \in BOOLEAN :
          poll' = IF auth_ok /\ store # {}
                    THEN [pc |-> "next", todo |-> store]
                    ELSE IdlePoll
    /\ UNCHANGED <<cmd, pc, call, dl_log, image_host, config_at_start, fetch_log, catalogue,
                   store, artist_illusts, sub_cmd, sub_out, tagVars, searchVars, sendVars>>

\* lines 43-46 and 54: the next subscription of the list; user_illusts is
\* answered in a worker thread, or raises
PollFetch ==
    /\ poll.pc = "next"
    /\ IF poll.todo = {} THEN poll' = IdlePoll
       ELSE \E sub \in poll.todo, ok \in BOOLEAN :
              poll' = [pc |-> "resume", todo |-> poll.todo \ {sub}, sub |-> sub,
                       ok |-> ok,
                       illusts |-> IF ok /\ sub.target_id = S_7
                                     THEN user_illusts(artist_illusts) ELSE <<>>]
    /\ UNCHANGED <<cmd, pc, call, dl_log, image_host, config_at_start, fetch_log, catalogue,
                   store, artist_illusts, sub_cmd, sub_out, tagVars, searchVars, sendVars>>

\* lines 56-75 and 47-49: the coroutine resumes with the answer
PollResume ==
    /\ poll.pc = "resume"
    /\ LET new_illusts == IF poll.ok
                            THEN new_illusts_of(poll.illusts,
                                                poll.sub.last_notified_illust_id)
                            ELSE <<>>
           sent == sent_updates(new_illusts)
       IN /\ store' = IF new_illusts # <<>>
                         THEN update_last_notified_id(store, poll.sub.chat_id,
                                  poll.sub.sub_type, poll.sub.target_id,
                                  new_illusts[Len(new_illusts)].id)
                         ELSE store
          /\ sub_out' = sub_out \o [k \in 1..Len(sent) |->
                                       [kind |-> "sent", session_id |-> poll.sub.session_id,
                                        work |-> sent[k].id]]
          /\ poll' = [pc |-> "next", todo |-> poll.todo, sub |-> poll.sub,
                      new_illusts |-> new_illusts]
    /\ UNCHANGED <<cmd, pc, call, dl_log, image_host, config_at_start, fetch_log, catalogue,
                   artist_illusts, sub_cmd, tagVars, searchVars, sendVars>>

\* the artist publishes a work
Publish ==
    /\ artist_illusts < MaxIllustId
    /\ artist_illusts' = artist_illusts + 1
    /\ UNCHANGED <<cmd, pc, call, dl_log, image_host, config_at_start, fetch_log, catalogue,
                   store, poll, sub_cmd, sub_out, tagVars, searchVars, sendVars>>

\* str.isdigit
IsDigit(str) == str # <<>> /\ \A i \in 1..Len(str) : str[i] \in Range(Digits)

\* the subscription commands received so far
CommandsSoFar == Cardinality({i \in 1..Len(sub_out) : sub_out[i].kind \in {"reply", "unhandled_error"}})

\* the artist_id arguments of the commands
ArtistIdArguments == {S_7, <<"x">>}

\* the chats the commands come from
CommandChats == {"c1"}

\* lines 200-226 and 239-247 of pixiv_subscribe_add, up to the user_illusts call
SubAddStart ==
    /\ sub_cmd.pc = "none"
    /\ CommandsSoFar < MaxSubCommands
    /\ \E chat_id \in CommandChats, artist_id \in ArtistIdArguments :
        IF ~IsDigit(artist_id) THEN
          /\ sub_out' = Append(sub_out, Reply("add", chat_id, FALSE, "invalid_artist_id"))
          /\ UNCHANGED sub_cmd
        ELSE
          \E auth_ok \in BOOLEAN, detail \in {"raise", "no_user", "user"} :
            IF ~auth_ok THEN
              /\ sub_out' = Append(sub_out, Reply("add", chat_id, FALSE, "auth_failed"))
              /\ UNCHANGED sub_cmd
            ELSE IF detail = "raise" THEN
              \* the except of line 239; line 242 then reads latest_illust_id, which
              \* line 227 has not assigned: UnboundLocalError leaves the handler
              /\ sub_out' = sub_out \o <<[kind |-> "notice", chat_id |-> chat_id,
                                           message |-> "subscribing_by_id_anyway"],
                                          [kind |-> "unhandled_error", chat_id |-> chat_id]>>
              /\ UNCHANGED sub_cmd
            ELSE
              /\ sub_cmd' = [pc |-> "fetch", chat_id |-> chat_id, artist_id |-> artist_id,
                             target_name |-> IF detail = "user" THEN <<"n">> ELSE artist_id,
                             latest_illust_id |-> 0]
              /\ UNCHANGED sub_out
    /\ UNCHANGED <<cmd, pc, call, dl_log, image_host, config_at_start, fetch_log, catalogue,
                   store, artist_illusts, poll, tagVars, searchVars, sendVars>>

\* lines 228-237: user_illusts is answered in a worker thread, or raises
SubAddFetch ==
    /\ sub_cmd.pc = "fetch"
    /\ \E ok \in BOOLEAN :
          sub_cmd' = [sub_cmd EXCEPT
                         !.pc = "create",
                         !.latest_illust_id = IF ok /\ artist_illusts > 0
                                                THEN user_illusts(artist_illusts)[1].id
                                                ELSE 0]
    /\ UNCHANGED <<cmd, pc, call, dl_log, image_host, config_at_start, fetch_log, catalogue,
                   store, artist_illusts, poll, sub_out, tagVars, searchVars, sendVars>>

\* lines 242-247: the handler resumes, adds the subscription and replies
SubAddCreate ==
    /\ sub_cmd.pc = "create"
    /\ LET r == add_subscription(store, sub_cmd.chat_id, SessionOf(sub_cmd.chat_id),
                                 sub_cmd.artist_id, sub_cmd.target_name,
                                 sub_cmd.latest_illust_id)
       IN /\ store' = r.store
          /\ sub_out' = Append(sub_out, Reply("add", sub_cmd.chat_id, r.success, r.message))
    /\ sub_cmd' = NoSubCommand
    /\ UNCHANGED <<cmd, pc, call, dl_log, image_host, config_at_start, fetch_log, catalogue,
                   artist_illusts, poll, tagVars, searchVars, sendVars>>

\* lines 249-263: pixiv_subscribe_remove
SubRemove ==
    /\ CommandsSoFar < MaxSubCommands
    /\ \E chat_id \in CommandChats, artist_id \in ArtistIdArguments :
        IF ~IsDigit(artist_id) THEN
          /\ sub_out' = Append(sub_out, Reply("remove", chat_id, FALSE, "invalid_artist_id"))
          /\ UNCHANGED store
        ELSE
          LET r == remove_subscription(store, chat_id, "artist", artist_id)
          IN /\ store' = r.store
             /\ sub_out' = Append(sub_out, Reply("remove", chat_id, r.success, r.message))
    /\ UNCHANGED <<cmd, pc, call, dl_log, image_host, config_at_start, fetch_log, catalogue,
                   artist_illusts, poll, sub_cmd, tagVars, searchVars, sendVars>>

(***************************************************************************)
(* SpecSubs: the subscription job interleaved with the subscription        *)
(* commands and with the artist publishing works.                          *)
(***************************************************************************)
InitSubs ==
    /\ cmd = "subscriptions"
    /\ pc = "subscriptions"
    /\ TagsIdle
    /\ SearchIdle
    /\ illusts = <<>>
    /\ config = IdleFilterConfig
    /\ SendIdle
    /\ AuxIdle

NextSubs ==
    \/ PollStart \/ PollFetch \/ PollResume \/ Publish
    \/ SubAddStart \/ SubAddFetch \/ SubAddCreate \/ SubRemove

SpecSubs == InitSubs /\ [][NextSubs]_vars

(***************************************************************************)
(* SpecConfig: validate_and_set_config called again and again on one       *)
(* PixivConfig, each call with a key, the text of a value, and a           *)
(* save_config that returns or raises.                                     *)
(***************************************************************************)
MaxConfigCalls == 3   \* validate_and_set_config calls in one run

\* configurations whose integers lie at the ends of the schema's ranges
InRangeConfigs ==
    {PixivConfig(r18, AI_SHOW, return_count, TRUE, threshold, depth, TRUE) :
        r18 \in {R18_FILTER, R18_ONLY}, return_count \in {1, 30},
        threshold \in {1, 20}, depth \in {-1, 50}}

InitConfig ==
    /\ cmd = "config"
    /\ pc = "config"
    /\ TagsIdle
    /\ pixiv_config \in InRangeConfigs
    /\ authed = 0
    /\ deep_search_depth = 0
    /\ page_count = 0
    /\ next_params = "none"
    /\ all_illusts = <<>>
    /\ requests = 0
    /\ resp_log = <<>>
    /\ illusts = <<>>
    /\ config = IdleFilterConfig
    /\ SendIdle
    /\ call = [kind |-> "none", calls |-> 0]
    /\ DownloadIdle

\* lines 174-228 of config.py: one call, with what it was given, what it
\* returned and the configuration it found
ConfigCall ==
    /\ pc = "config"
    /\ call.calls < MaxConfigCalls
    /\ \E input \in ConfigInputs, save_ok \in BOOLEAN :
         LET r == validate_and_set_config(pixiv_config, input.key, input.value, save_ok)
         IN /\ pixiv_config' = r.config
            /\ call' = [kind |-> "validate_and_set_config", calls |-> call.calls + 1,
                        key |-> input.key, success |-> r.success,
                        message |-> r.message, before |-> pixiv_config]
    /\ UNCHANGED <<cmd, pc, dl_log, image_host, config_at_start, fetch_log, catalogue,
                   subVars, tagVars, authed, deep_search_depth, page_count, next_params,
                   all_illusts, requests, resp_log, sendVars>>

NextConfig == ConfigCall

SpecConfig == InitConfig /\ [][NextConfig]_vars

(***************************************************************************)
(* Claims about the filter engine and the send pipeline (SpecSend).        *)
(***************************************************************************)
\* the five grounds on which a work is dropped
Dropped(w, cfg) ==
    \/ cfg.r18_mode = R18_FILTER /\ is_r18(w)
    \/ cfg.r18_mode = R18_ONLY /\ ~is_r18(w)
    \/ cfg.ai_filter_mode = AI_FILTER /\ is_ai(w)
    \/ cfg.ai_filter_mode = AI_ONLY /\ ~is_ai(w)
    \/ has_excluded_tags(w, cfg.excluded_tags)

KeptPositions(ws, cfg) == {i \in 1..Len(ws) : ~Dropped(ws[i], cfg)}

\* the j-th smallest member of a set of positions
NthPosition(K, j) == CHOOSE i \in K : Cardinality({m \in K : m <= i}) = j

\* C1: filter_illusts_with_reason returns exactly the works of the input that
\* none of the five grounds drops, in input order: the j-th retained work is the
\* work at the j-th kept position, so the result is a subsequence of the input
\* and never longer than it.
C1_FilterRetainsExactly ==
    pc # "ps_filter" =>
        LET K == KeptPositions(illusts, config)
        IN /\ Len(filtered_illusts) = Cardinality(K)
           /\ Len(filtered_illusts) <= Len(illusts)
           /\ \A j \in 1..Len(filtered_illusts) :
                filtered_illusts[j] = illusts[NthPosition(K, j)]

\* a three-work input whose middle work is dropped and whose outer works stay
C1_Witness ==
    /\ pc = "ps_sample"
    /\ Len(illusts) = 3
    /\ illusts[1] # illusts[3]
    /\ filtered_illusts = <<illusts[1], illusts[3]>>

SentWorks == UNION {Range(out[i].works) : i \in {k \in 1..Len(out) : out[k].type # "plain"}}

\* C2: every work handed to the individual send or to the grouped send is a
\* work of the input list that passes the invocation's filter.
C2_SentWorksPassFilter ==
    \A w \in SentWorks :
        /\ w \in Range(illusts)
        /\ config.r18_mode = R18_FILTER => ~is_r18(w)
        /\ config.r18_mode = R18_ONLY => is_r18(w)
        /\ config.ai_filter_mode = AI_FILTER => ~is_ai(w)
        /\ config.ai_filter_mode = AI_ONLY => is_ai(w)
        /\ ~has_excluded_tags(w, config.excluded_tags)

\* both routes have sent, under a filter that dropped some work of the input
C2_Witness ==
    /\ pc = "done"
    /\ config.ai_filter_mode = AI_FILTER
    /\ \E i \in 1..Len(illusts) : is_ai(illusts[i])
    /\ \E i \in 1..Len(out) : out[i].type = "forward" /\ Len(out[i].works) = 2

(***************************************************************************)
(* Claims about the tag-expression parser (SpecTags).                      *)
(***************************************************************************)
\* the tokens of a raw tag string: its comma-separated pieces, trimmed, non-empty
RawTokens(str) ==
    LET pieces == Split(ReplaceChar(str, FullwidthComma, ","), ",")
    IN {Strip(pieces[i]) : i \in 1..Len(pieces)} \ {<<>>}

\* the tokens t, lowercased, for which t is an include token and -t an exclude token
ConflictTerms(str) ==
    {Lower(t) : t \in {u \in RawTokens(str) :
        /\ Head(u) # "-"
        /\ \E q \in RawTokens(str) : Head(q) = "-" /\ Lower(Tail(q)) = Lower(u)}}

\* C10: when some token t is an include tag and -t an exclude tag (compared
\* case-insensitively), validation fails with empty include and exclude lists
\* and the conflict message lists t.
C10_ConflictRejected ==
    (pc = "done" /\ ConflictTerms(tags) # {}) =>
        /\ tag_result.success = FALSE
        /\ tag_result.include_tags = <<>>
        /\ tag_result.exclude_tags = <<>>
        /\ tag_result.error_message.kind = "conflict"
        /\ \A t \in ConflictTerms(tags) :
             t \in Range(Split(tag_result.error_message.text, IdeographicComma))

\* a conflict between tokens that differ in case has been validated
C10_Witness ==
    /\ pc = "done"
    /\ cmd = "validate"
    /\ \E t \in RawTokens(tags) : Head(t) # "-" /\ Lower(t) # t /\ Lower(t) \in ConflictTerms(tags)

\* the raw string holds no include token: it is empty, holds separators and
\* blanks only, or every token of it starts with "-"
NoIncludeToken(str) == \A t \in RawTokens(str) : Head(t) = "-"

\* C11: a tag string without any include token is rejected with the
\* "at least one include tag" message, which is not the conflict message;
\* the validation returns a result for every string.
C11_NoIncludeTokenRejected ==
    (pc = "done" /\ NoIncludeToken(tags)) =>
        /\ tag_result.success = FALSE
        /\ tag_result.error_message.kind = "need_include"
        /\ tag_result.error_message.kind # "conflict"
        /\ tag_result.include_tags = <<>>

\* a string made of "-"-prefixed tokens only has been validated
C11_Witness ==
    /\ pc = "done"
    /\ cmd = "validate"
    /\ RawTokens(tags) # {}
    /\ NoIncludeToken(tags)
    /\ \E t \in RawTokens(tags) : Len(t) > 1

(***************************************************************************)
(* Claims about the paginated commands (SpecSearch).                       *)
(***************************************************************************)
\* the works of the pages delivered so far, in the order of delivery
RECURSIVE Delivered(_)
Delivered(log) ==
    IF log = <<>> THEN <<>> ELSE Delivered(SubSeq(log, 1, Len(log) - 1)) \o log[Len(log)].works

\* the handler has left "start" with the fetch loop entered
LoopEntered == pc \notin {"start"} /\ tag_result.success /\ Len(out) > 0
                 /\ out[1].msg.kind = "search_started"

\* the fetch loop is over and local filtering has been reached
InPipeline == pc \in {"ps_filter", "ps_sample", "ps_route", "ps_forward", "ps_send"}

\* C3 (as claimed): every work pixiv_and passes on to filtering and dispatch
\* carries, case-insensitively, every include tag, the anchor tag included.
C3_EveryIncludeTagPresent ==
    (cmd = "and" /\ InPipeline) =>
        \A i \in 1..Len(illusts) :
            \A t \in Range(tag_result.include_tags) : Lower(t) \in TagsLower(illusts[i])

OtherTagPositions ==
    {i \in 1..Len(all_illusts) :
        \A t \in Range(Tail(tag_result.include_tags)) : Lower(t) \in TagsLower(all_illusts[i])}

\* C4: the local AND step retains a candidate iff its lowercased tag names
\* include every lowercased include tag other than the first, and the retained
\* candidates keep the order in which the pages delivered them.
C4_AndStepRetains ==
    (cmd = "and" /\ InPipeline) =>
        /\ all_illusts = Delivered(resp_log)
        /\ Len(illusts) = Cardinality(OtherTagPositions)
        /\ \A j \in 1..Len(illusts) :
             illusts[j] = all_illusts[NthPosition(OtherTagPositions, j)]

\* three pages delivered; the middle candidate is dropped, and a kept candidate
\* spells the other tag in a case of its own
C4_Witness ==
    /\ cmd = "and"
    /\ pc = "ps_filter"
    /\ Len(all_illusts) = 3
    /\ illusts = <<all_illusts[1], all_illusts[3]>>
    /\ DictTag(Str(T_DOG)) \in Range(all_illusts[1].tags)
    /\ DictTag(Str(T_dog)) \in Range(all_illusts[3].tags)

\* every response so far was a non-empty page with a next-page cursor
AllFull ==
    \A i \in 1..Len(resp_log) :
        resp_log[i].kind = "page" /\ resp_log[i].works # <<>> /\ resp_log[i].next_url

\* C5: with a depth D >= 1 and a collaborator that always returns a non-empty
\* page with a cursor, both commands issue exactly D requests, never D + 1.
C5_ExactlyDepthRequests ==
    (LoopEntered /\ deep_search_depth >= 1 /\ AllFull) =>
        /\ requests <= deep_search_depth
        /\ pc \notin {"ds_loop", "and_loop"} => requests = deep_search_depth

C5_Witness ==
    /\ cmd = "deepsearch"
    /\ pc = "ps_filter"
    /\ AllFull
    /\ deep_search_depth = MaxDepth
    /\ requests = MaxDepth

\* C6 (as claimed): for every configured depth other than -1, 0 included, an
\* invocation issues at most that many page requests.
C6_AtMostDepthRequests ==
    (LoopEntered /\ deep_search_depth # -1) => requests <= deep_search_depth

\* C7 (as claimed): once a page came back with no works or without a cursor,
\* no further request is issued: only the latest response may be such a page.
C7_NoRequestAfterTerminalPage ==
    \A i \in 1..(Len(resp_log) - 1) :
        resp_log[i].kind = "page" => (resp_log[i].works # <<>> /\ resp_log[i].next_url)

FetchFailedAfterPages ==
    /\ Len(resp_log) >= 2
    /\ resp_log[Len(resp_log)].kind \in {"raise", "error"}
    /\ all_illusts # <<>>

ErrorNoticeEmitted ==
    \E i \in 1..Len(out) :
        out[i].msg.kind \in {"deepsearch_error", "and_api_exception", "and_api_error"}

PipelineEmitted ==
    \E i \in 1..Len(out) :
        \/ out[i].type \in {"single", "forward"}
        \/ out[i].msg.kind \in {"some_filtered", "filter_complete", "all_filtered",
                                "no_work_with_all_tags", "no_work_for_first_tag",
                                "nothing_to_send", "no_work_found"}

\* C8 (as claimed): when a page request fails after at least one page was
\* accumulated, no further request is made, an error notice is emitted, and the
\* works already fetched still go through filtering and dispatch.
C8_FailureKeepsPartialResult ==
    (FetchFailedAfterPages /\ pc = "done") =>
        /\ \A i \in 1..(Len(resp_log) - 1) : resp_log[i].kind = "page"
        /\ ErrorNoticeEmitted
        /\ illusts = (IF cmd = "and" THEN and_filter(all_illusts, tag_result.include_tags)
                                     ELSE all_illusts)
        /\ PipelineEmitted

\* C9 (as claimed): when the anchor-tag fetch of pixiv_and, having asked the
\* collaborator, yields zero works, the user receives the message that no works
\* exist for the anchor tag.
C9_NoAnchorResultsMessage ==
    (cmd = "and" /\ LoopEntered /\ requests >= 1 /\ pc = "done" /\ all_illusts = <<>>) =>
        \E i \in 1..Len(out) : out[i].msg.kind = "no_work_for_first_tag"

\* a validation error of validate_and_process_tags is among the emitted messages
ValidationErrorEmitted ==
    \E i \in 1..Len(out) :
        out[i].type = "plain" /\ out[i].msg.kind \in {"conflict", "need_include"}

\* C12: in a tag-taking command, when the tag string fails validation the error
\* message is emitted before any call to the remote client, authentication
\* included, and no remote call follows it.
C12_ValidationErrorBeforeRemoteCall ==
    ValidationErrorEmitted => (authed = 0 /\ requests = 0)

(***************************************************************************)
(* Claims about the sampler (SpecSample).                                  *)
(***************************************************************************)
\* C13: sample_illusts returns min(len, count) works when count > 0 and none
\* when count <= 0 or the list is empty, with shuffle on or off; every
\* returned work is the input work at some position and no position of the
\* input is taken twice.
C13_SampleSizeAndDistinctPositions ==
    (pc = "done" /\ call.kind = "sampled") =>
        LET n == Len(illusts)
            p == call.positions
            expected == IF call.count <= 0 \/ n = 0 THEN 0
                        ELSE IF n <= call.count THEN n ELSE call.count
        IN /\ Len(illusts_to_send) = expected
           /\ Len(p) = expected
           /\ \A j \in 1..expected : p[j] \in 1..n /\ illusts_to_send[j] = illusts[p[j]]
           /\ \A i, j \in 1..expected : i # j => p[i] # p[j]

\* without shuffling, fewer works than the list holds were drawn out of list
\* order from a list that holds one work twice
C13_Witness ==
    /\ pc = "done"
    /\ call.kind = "sampled"
    /\ ~call.shuffle
    /\ call.count > 1
    /\ call.count < Len(illusts)
    /\ illusts[1] = illusts[2]
    /\ call.positions[1] > call.positions[2]

(***************************************************************************)
(* Claims about pixiv_ranking (SpecRanking).                               *)
(***************************************************************************)
\* the works handed to a send route, in the order of their dispatch
RECURSIVE DispatchedFrom(_)
DispatchedFrom(events) ==
    IF events = <<>> THEN <<>>
    ELSE (IF Head(events).type = "plain" THEN <<>> ELSE Head(events).works)
            \o DispatchedFrom(Tail(events))

\* C14: the works pixiv_ranking dispatches are the first min(n, return_count)
\* works of the filtered ranking list, in ranking order.
C14_RankingOrderPreserved ==
    (cmd = "ranking" /\ pc = "done" /\ filtered_illusts # <<>>) =>
        DispatchedFrom(out) =
            SubSeq(filtered_illusts, 1,
                   IF Len(filtered_illusts) <= config.return_count
                     THEN Len(filtered_illusts) ELSE config.return_count)

(***************************************************************************)
(* Claims about the dispatch (SpecDispatch).                               *)
(***************************************************************************)
\* the event concerns the selected work w alone: its image or its failure notice
SentAlone(event, w) ==
    \/ event.type = "single" /\ event.works = <<w>>
    \/ event.type = "plain" /\ event.msg.kind = "image_download_failed"
          /\ event.msg.work = w.id

\* C15: the route depends on the size of the selection alone.  Up to
\* forward_threshold works are sent individually, one send per work in
\* selection order; more go to the grouped send, whose containers hold at most
\* 10 works each and together every selected work exactly once, in order.
C15_RouteBySizeAlone ==
    (cmd = "dispatch" /\ pc = "done") =>
        IF Len(illusts_to_send) <= config.forward_threshold
          THEN /\ Len(out) = Len(illusts_to_send)
               /\ \A j \in 1..Len(out) : SentAlone(out[j], illusts_to_send[j])
          ELSE /\ \A j \in 1..Len(out) :
                    /\ out[j].type = "forward"
                    /\ Len(out[j].works) \in 1..10
                    /\ Len(out[j].msg.contents) = Len(out[j].works)
               /\ DispatchedFrom(out) = illusts_to_send

\* a selection above the threshold went out in three containers, the last not full
C15_Witness ==
    /\ cmd = "dispatch"
    /\ pc = "done"
    /\ Len(illusts_to_send) > config.forward_threshold
    /\ Len(out) = 3
    /\ Len(out[1].works) = 10
    /\ Len(out[3].works) < 10

\* the attempts logged for the selected work at position j
AttemptsOf(j) == SelectSeq(dl_log, LAMBDA e : e.idx = j)

\* the place of a quality in the preference order
QualityRank(q) == CHOOSE i \in 1..3 : <<"original", "large", "medium">>[i] = q

\* C16: on the individual-send route, a work whose image cannot be downloaded
\* at any tried quality gets exactly one failure notice and the works after it
\* are still attempted, in order; no quality is tried twice for a work and the
\* first successful quality ends the attempts for it.
C16_FailureIsolatedPerWork ==
    (cmd = "dispatch" /\ pc \in {"ps_send", "done"}
        /\ Len(illusts_to_send) <= config.forward_threshold) =>
        /\ Len(out) = send_idx - 1
        /\ pc = "done" => Len(out) = Len(illusts_to_send)
        /\ \A k \in 1..(Len(dl_log) - 1) : dl_log[k].idx <= dl_log[k + 1].idx
        /\ \A j \in 1..(send_idx - 1) :
             LET a == AttemptsOf(j)
             IN /\ \A k \in 1..(Len(a) - 1) :
                      /\ QualityRank(a[k].quality) < QualityRank(a[k + 1].quality)
                      /\ a[k].outcome # "ok"
                /\ IF \E k \in 1..Len(a) : a[k].outcome = "ok"
                     THEN out[j].type = "single" /\ out[j].works = <<illusts_to_send[j]>>
                     ELSE /\ out[j].type = "plain"
                          /\ out[j].msg.kind = "image_download_failed"
                          /\ out[j].msg.work = illusts_to_send[j].id

\* the first of two works failed at three qualities, once by a status and once
\* by an exception, and the second was then sent at its second quality
C16_Witness ==
    /\ cmd = "dispatch"
    /\ pc = "done"
    /\ Len(illusts_to_send) = 2
    /\ Len(out) = 2
    /\ out[1].type = "plain"
    /\ out[2].type = "single"
    /\ Len(AttemptsOf(1)) = 3
    /\ \E k \in 1..3 : AttemptsOf(1)[k].outcome = "exception"
    /\ \E k \in 1..3 : AttemptsOf(1)[k].outcome = "status_error"
    /\ Len(AttemptsOf(2)) = 2

(***************************************************************************)
(* Claims about the filter messages (SpecSend).                            *)
(***************************************************************************)
\* the filter dimension a reason of the "all filtered" message names is active
ReasonActive(reason, cfg) ==
    \/ reason = "R18" /\ cfg.r18_mode = R18_FILTER
    \/ reason = "non-R18" /\ cfg.r18_mode = R18_ONLY
    \/ reason = "AI" /\ cfg.ai_filter_mode = AI_FILTER
    \/ reason = "non-AI" /\ cfg.ai_filter_mode = AI_ONLY
    \/ reason = "excluded tag" /\ cfg.excluded_tags # <<>>

\* C17: with show_filter_result on, when the filter removes every work of a
\* non-empty input, the messages hold the "all found works were ..., filtered"
\* explanation naming at least one active filter dimension, and the generic
\* "nothing to send" text is not the only explanation.
C17_AllFilteredExplained ==
    (cmd = "send" /\ pc = "done" /\ config.show_filter_result
        /\ illusts # <<>> /\ filtered_illusts = <<>>) =>
        /\ \E i \in 1..Len(filter_msgs) :
              /\ filter_msgs[i].kind = "all_filtered"
              /\ filter_msgs[i].reasons # <<>>
              /\ \A k \in 1..Len(filter_msgs[i].reasons) :
                    ReasonActive(filter_msgs[i].reasons[k], config)
        /\ \E i \in 1..Len(filter_msgs) : filter_msgs[i].kind # "nothing_to_send"

(***************************************************************************)
(* Claims about concurrent invocations (SpecConcurrent).                   *)
(***************************************************************************)
\* C18: the R18 mode, AI mode, result count and forward threshold a
\* pixiv_deepsearch invocation applies are those in effect when it started,
\* whatever pixiv_config change arrives while it is suspended between pages.
C18_ConfigSnapshotAtStart ==
    (cmd = "deepsearch" /\ InPipeline) =>
        /\ config.r18_mode = config_at_start.r18_mode
        /\ config.ai_filter_mode = config_at_start.ai_filter_mode
        /\ config.return_count = config_at_start.return_count
        /\ config.forward_threshold = config_at_start.forward_threshold

(***************************************************************************)
(* Claims about the classifier (SpecClassify).                             *)
(***************************************************************************)
\* the tokens of a tag name: lowercased, trimmed, cut at every space
NameTokens(name) == Range(Split(Strip(Lower(name)), " "))

\* some str tag name of the work has one of the badwords as a token
SomeNameHasToken(item, badwords) ==
    \E i \in 1..Len(item.tags) :
        /\ tag_name(item.tags[i]).type = "str"
        /\ NameTokens(tag_name(item.tags[i]).chars) \cap badwords # {}

\* C19: is_r18 (is_ai) is true exactly when some tag name, lowercased and
\* trimmed, is an R18 (AI) badword or holds one as a token delimited by
\* spaces or the ends of the name; a badword that only occurs inside a
\* longer word does not classify the work.
C19_BadwordMatchesAsToken ==
    call.kind = "classified" =>
        /\ call.r18 = SomeNameHasToken(illusts[1], R18_BADWORDS)
        /\ call.ai = SomeNameHasToken(illusts[1], AI_BADWORDS)

\* a name holding "ai" only inside a longer word has been classified as not AI
C19_Witness ==
    /\ call.kind = "classified"
    /\ IsSubstr(<<"a", "i">>, Lower(illusts[1].tags[2].name.chars))
    /\ ~call.ai

(***************************************************************************)
(* Claims about malformed tag entries (SpecMalformed).                     *)
(***************************************************************************)
\* a tag entry that is a str, or a mapping whose name is a str
WellFormed(tag) ==
    \/ tag.type = "str"
    \/ tag.type = "dict" /\ tag.name.type = "str"

\* the work without its malformed tag entries
Cleaned(item) == [item EXCEPT !.tags = SelectSeq(item.tags, WellFormed)]

CleanedList(ills) == [i \in 1..Len(ills) |-> Cleaned(ills[i])]

\* C20: filter_illusts_with_reason does not raise on works whose tag lists
\* hold malformed entries (null, not a string, a mapping whose name is null
\* or not a string); it keeps and explains exactly what it would with those
\* entries absent: a malformed entry matches no badword and no excluded
\* term, and the other entries of the same work are still examined.
C20_MalformedEntriesIgnored ==
    call.kind \in {"returned", "raised"} =>
        /\ call.kind = "returned"
        /\ filtered_illusts =
              SelectSeq(illusts, LAMBDA item : _apply_filters(Cleaned(item), config))
        /\ filter_msgs = filter_illusts_with_reason(CleanedList(illusts), config).msgs

\* a work that starts with a malformed entry has been removed for the R18 tag
\* that follows it, while a work whose only R18 text is malformed was kept
C20_Witness ==
    /\ call.kind = "returned"
    /\ config.r18_mode = R18_FILTER
    /\ config.ai_filter_mode = AI_SHOW
    /\ config.excluded_tags = <<>>
    /\ \E i \in 1..Len(illusts) :
          /\ ~WellFormed(illusts[i].tags[1])
          /\ is_r18(Cleaned(illusts[i]))
          /\ illusts[i] \notin Range(filtered_illusts)
    /\ \E i \in 1..Len(filtered_illusts) :
          \E k \in 1..Len(filtered_illusts[i].tags) :
              /\ ~WellFormed(filtered_illusts[i].tags[k])
              /\ MatchesBadword(tag_name(filtered_illusts[i].tags[k]).chars, R18_BADWORDS)

(***************************************************************************)
(* Claims about progress messages and pacing (SpecSearch).                 *)
(***************************************************************************)
\* the positions of the log that hold the entry x
PositionsOf(log, x) == {i \in 1..Len(log) : log[i] = x}

\* the progress messages among the events emitted so far
ProgressEvents == SelectSeq(out, LAMBDA ev : ev.type = "plain" /\ ev.msg.kind = "progress")

\* C21: in a pixiv_deepsearch fetch the progress messages emitted so far are
\* floor(page_count / 3) in number, the k-th one reporting 3k pages; each
\* is emitted right after the request that retrieved non-empty page 3k,
\* hence before the request of the page that follows.
C21_ProgressEveryThirdPage ==
    cmd = "deepsearch" =>
        /\ Len(ProgressEvents) = page_count \div 3
        /\ \A k \in 1..Len(ProgressEvents) : ProgressEvents[k].msg.pages = 3 * k
        /\ Cardinality(PositionsOf(fetch_log, "progress")) = page_count \div 3
        /\ \A i \in PositionsOf(fetch_log, "progress") :
              /\ i > 1
              /\ fetch_log[i - 1] = "request"
              /\ Cardinality({j \in PositionsOf(fetch_log, "request") : j < i}) % 3 = 0

\* a seventh page has been requested after the progress message of the sixth
C21_Witness ==
    /\ cmd = "deepsearch"
    /\ page_count = 6
    /\ requests = 7
    /\ Len(ProgressEvents) = 2
    /\ \A i \in PositionsOf(fetch_log, "progress") :
          \E j \in PositionsOf(fetch_log, "request") : j > i

\* the fetch loop of the command has ended
FetchEnded == pc \notin {"start", "ds_loop", "and_loop"}

\* C22: in one paginated fetch of pixiv_deepsearch or pixiv_and a sleep lies
\* between any two consecutive page requests, and once the fetch has ended
\* no sleep follows the last request.
C22_SleepBetweenRequests ==
    /\ \A i, j \in PositionsOf(fetch_log, "request") :
          i < j => \E k \in PositionsOf(fetch_log, "sleep") : i < k /\ k < j
    /\ FetchEnded =>
          \A k \in PositionsOf(fetch_log, "sleep") :
              \E j \in PositionsOf(fetch_log, "request") : k < j

(***************************************************************************)
(* Claims about termination of the fetch loop (SpecFetchLive).             *)
(***************************************************************************)
\* the collaborator has just returned a page that is empty or has no cursor
TerminalPageReturned ==
    /\ resp_log # <<>>
    /\ resp_log[Len(resp_log)].kind = "page"
    /\ \/ resp_log[Len(resp_log)].works = <<>>
       \/ ~resp_log[Len(resp_log)].next_url

\* the works of the pages returned before the last response
RECURSIVE WorksBefore(_)
WorksBefore(n) ==
    IF n <= 1 THEN <<>>
    ELSE WorksBefore(n - 1) \o resp_log[n - 1].works

C24_ExcludeTermsNonEmpty ==
    pc = "done" =>
        \A i \in 1..Len(tag_result.exclude_tags) : tag_result.exclude_tags[i] # <<>>

(***************************************************************************)
(* Claims about the events of one run (SpecEmit).                          *)
(***************************************************************************)
\* the events of the run that send works
SendEvents == SelectSeq(out, LAMBDA ev : ev.type \in {"single", "forward"})

\* C25: a finished run of process_and_send_illusts has emitted at least one
\* event: with no work retained, plain notices and no send event; with a
\* work retained, at least one send event (return_count 0 included).
C25_EveryRunEmits ==
    (cmd = "emit" /\ pc = "done") =>
        /\ out # <<>>
        /\ filtered_illusts = <<>> => SendEvents = <<>>
        /\ filtered_illusts # <<>> => SendEvents # <<>>

(***************************************************************************)
(* Claims about the Subscription table (SpecStore).                        *)
(***************************************************************************)
\* C28: the table holds at most one row per (chat_id, sub_type, target_id);
\* add_subscription on a stored key fails and leaves the table, the stored
\* watermark included, as it was, and otherwise inserts the row;
\* remove_subscription on an absent key fails and changes nothing, and
\* otherwise removes the row.
C28_OneRowPerKey ==
    /\ \A r1, r2 \in store :
          (r1.chat_id = r2.chat_id /\ r1.sub_type = r2.sub_type
              /\ r1.target_id = r2.target_id) => r1 = r2
    /\ call.kind = "add_subscription" =>
          IF RowsOf(call.before, call.chat_id, "artist", call.target_id) # {}
            THEN ~call.success /\ store = call.before
            ELSE call.success
                 /\ Cardinality(RowsOf(store, call.chat_id, "artist", call.target_id)) = 1
    /\ call.kind = "remove_subscription" =>
          IF RowsOf(call.before, call.chat_id, "artist", call.target_id) = {}
            THEN ~call.success /\ store = call.before
            ELSE call.success
                 /\ RowsOf(store, call.chat_id, "artist", call.target_id) = {}

\* add_subscription has been refused on a key stored with a watermark other
\* than 0, next to a row of another chat for the same artist
C28_Witness ==
    /\ call.kind = "add_subscription"
    /\ ~call.success
    /\ \E r \in RowsOf(store, call.chat_id, "artist", call.target_id) :
          /\ r.last_notified_illust_id > 0
          /\ \E q \in store : q.target_id = r.target_id /\ q.chat_id # r.chat_id

(***************************************************************************)
(* Claims about the subscription job and commands (SpecSubs).              *)
(***************************************************************************)
\* the works sent to a session so far, in order
SentTo(session_id) ==
    LET msgs == SelectSeq(sub_out,
                    LAMBDA ev : ev.kind = "sent" /\ ev.session_id = session_id)
    IN [k \in 1..Len(msgs) |-> msgs[k].work]

\* the ids of the works of ws that the R18/AI filter of the plugin retains
PassingIds(ws) ==
    LET kept == SelectSeq(ws, LAMBDA w : _apply_filters(w, SubscriptionFilterConfig))
    IN [k \in 1..Len(kept) |-> kept[k].id]

\* C26: when the check of a subscription has found works above the stored
\* watermark, at the end of that check every one of them that passes the
\* R18/AI filter has been sent to the subscription's session, oldest first.
C26_NewWorksAreSent ==
    (poll.pc = "next" /\ "new_illusts" \in DOMAIN poll) =>
        LET expected == PassingIds(poll.new_illusts)
            sent == SentTo(poll.sub.session_id)
        IN /\ Len(sent) >= Len(expected)
           /\ SubSeq(sent, Len(sent) - Len(expected) + 1, Len(sent)) = expected

\* C27: no step lowers the last_notified_illust_id of a subscription that
\* is stored before and after it, and the works a check collects as new all
\* have ids above the watermark the job read.
C27_WatermarkNeverDecreases ==
    [][/\ \A r \in store : \A q \in store' :
             (r.chat_id = q.chat_id /\ r.sub_type = q.sub_type
                 /\ r.target_id = q.target_id)
             => q.last_notified_illust_id >= r.last_notified_illust_id
       /\ (poll'.pc = "next" /\ "new_illusts" \in DOMAIN poll') =>
             \A k \in 1..Len(poll'.new_illusts) :
                 poll'.new_illusts[k].id > poll'.sub.last_notified_illust_id]_vars

\* C29: pixiv_subscribe_add never ends with an unhandled error, and its
\* notice that the artist's details could not be fetched is followed by the
\* reply of add_subscription for that chat.
C29_AddSurvivesDetailFailure ==
    \A i \in 1..Len(sub_out) :
        /\ sub_out[i].kind # "unhandled_error"
        /\ sub_out[i].kind = "notice" =>
              /\ i < Len(sub_out)
              /\ sub_out[i + 1].kind = "reply"
              /\ sub_out[i + 1].cmd = "add"
              /\ sub_out[i + 1].chat_id = sub_out[i].chat_id

\* C30: a validate_and_set_config call that returns failure leaves every
\* configuration attribute as it found it, a call that returns success
\* changes no attribute but the one named by its key, and return_count,
\* forward_threshold and deep_search_depth stay within 1..30, 1..20 and
\* -1..50 after any sequence of calls.
C30_FailureLeavesConfigUnchanged ==
    /\ call.kind = "validate_and_set_config" =>
          /\ ~call.success => pixiv_config = call.before
          /\ call.success =>
                \A k \in DOMAIN pixiv_config :
                    k # call.key => pixiv_config[k] = call.before[k]
    /\ cmd = "config" =>
          /\ pixiv_config.return_count \in 1..30
          /\ pixiv_config.forward_threshold \in 1..20
          /\ pixiv_config.deep_search_depth \in -1..50

====
